---- MODULE Spec2Model ----
(***************************************************************************)
(* type-bridge: the safe file writer (src/writers/file-writer.js), the     *)
(* file watcher (src/watchers/file-watcher.js), the batch extraction of    *)
(* the Mongoose parser, and the pure functions of the parser, normalizer,  *)
(* error handler and configuration manager, as state machines.             *)
(*                                                                         *)
(* Six specifications share the variables; each one drives its own         *)
(* component and leaves the variables of the others at their initial       *)
(* values:                                                                 *)
(*   SpecWriter   writeMultipleFiles / writeFileSafe, one fs call per step *)
(*   SpecWatcher  watchFiles: events, debounce timer, runs, shutdown       *)
(*   SpecExtract  parseMongooseModels over a list of source files          *)
(*   SpecCalls    one call of parseMongooseModel, extractFieldType,        *)
(*                normalizeField, normalizeModel, validateSchema,          *)
(*                createError, mergeConfigs or loadConfig on an argument   *)
(*                chosen at the start                                      *)
(*   SpecOverlap  two writeFileSafe calls for one path, interleaved        *)
(*   SpecClean    cleanGeneratedFiles on an output directory               *)
(***************************************************************************)
EXTENDS Integers, Sequences, FiniteSets, TLC

VARIABLES
  \* ---- file writer ----
  dirExists,      \* the parent directory of the destination exists
  dirWritable,    \* fs.access(dir, W_OK) succeeds
  fs,             \* fs[p][k]: content of path p (k = "file"), p.backup, p.tmp
  files,          \* argument of writeMultipleFiles: sequence of {path, content}
  shouldBackup,   \* options.createBackup
  idx,            \* number of files the loop of writeMultipleFiles has finished
  results,        \* results array of writeMultipleFiles
  wpc,            \* position inside writeMultipleFiles / writeFileSafe
  backupPath,     \* local variable backupPath of writeFileSafe
  error,          \* the error caught by the outer catch of writeFileSafe
  result,         \* the value writeFileSafe is about to return
  batch,          \* the value writeMultipleFiles returned
  before,         \* history: content of the destination when the call began
  entry,          \* history: directory and sibling files when the call began
  \* ---- file watcher ----
  watcher,        \* the chokidar handle: "undefined", "open" or "closed"
  isRegenerating, \* the re-entrancy guard
  timer,          \* the pending debounce timeout: {deadline}, or NoTimer
  now,            \* the clock
  inFlight,       \* number of generateTypes calls that have not completed
  onRegenerateCb, \* options.onRegenerate: "absent", "ok" or "throws"
  onErrorCb,      \* options.onError: "absent", "ok" or "throws"
  shutdown,       \* the signal handler: "none", "closing" or "exited"
  hist,           \* history of the watcher (counters, last run)
  \* ---- batch extraction ----
  srcFiles,       \* the files found by findMongooseModels, in glob order
  xi,             \* number of source files parseMongooseModels has finished
  models,         \* the models array of parseMongooseModels
  warnings,       \* files reported by console.warn
  xpc,            \* "loop" or "done"
  \* ---- single calls of the parser, normalizer, errors and config ----
  call,           \* the call in progress: [fn, arg], or NoCall
  ret,            \* what the call returned, or NoRet while it has not
  \* ---- two overlapping writeFileSafe calls for one path ----
  ofs,            \* the path and its siblings: [file, backup, tmp]
  oshouldBackup,  \* options.createBackup of each call
  opc,            \* position of each call inside writeFileSafe
  obackupPath,    \* local variable backupPath of each call
  oresult,        \* "none" while a call runs, then "success" or "failure"
  oinstalled,     \* history: the path has held the content of the call in full
  obefore,        \* history: the content of the path before either call
  \* ---- cleanGeneratedFiles ----
  outDir,         \* the output directory: [exists, names]
  dryRun,         \* options.dryRun
  cpc,            \* position inside cleanGeneratedFiles
  tsFiles,        \* local variable tsFiles
  pending,        \* the files of tsFiles the loop has not reached yet
  cleanResult,    \* the value cleanGeneratedFiles returned
  outDirBefore    \* history: the output directory when the call began

writerVars == <<dirExists, dirWritable, fs, files, shouldBackup, idx, results,
                wpc, backupPath, error, result, batch, before, entry>>
watcherVars == <<watcher, isRegenerating, timer, now, inFlight, onRegenerateCb,
                 onErrorCb, shutdown, hist>>
extractVars == <<srcFiles, xi, models, warnings, xpc>>
callVars == <<call, ret>>
overlapVars ==
  <<ofs, oshouldBackup, opc, obackupPath, oresult, oinstalled, obefore>>
cleanVars == <<outDir, dryRun, cpc, tsFiles, pending, cleanResult, outDirBefore>>
vars == <<writerVars, watcherVars, extractVars, callVars, overlapVars, cleanVars>>

(***************************************************************************)
(* Bounds                                                                  *)
(***************************************************************************)
MaxFiles == 2
MaxEvents == 3
MaxTime == 6
MaxStarts == 2
MaxSrcFiles == 3

Paths == {"A.ts", "B.ts"}
Contents == {"c1", "c2"}

(***************************************************************************)
(* The file system seen by the writer                                      *)
(***************************************************************************)
Absent == "absent"      \* no file at the path
Partial == "partial"    \* a file that is being, or was partly, written
Val == {Absent, Partial} \cup Contents
Kinds == {"file", "backup", "tmp"}
Null == "null"
NoResult == [success |-> FALSE, filePath |-> "none", backupCreated |-> FALSE,
             error |-> "none"]

\* fs.pathExists: never rejects
pathExists(p, k) == fs[p][k] # Absent

\* the file the loop of writeMultipleFiles is at
cur == files[idx + 1]

\* what the call finds: whether the directory exists, and the sibling files
EntryState(p) ==
  [dir |-> dirExists, backup |-> fs[p]["backup"], tmp |-> fs[p]["tmp"]]

NoEntry == [dir |-> TRUE, backup |-> Absent, tmp |-> Absent]

\* The catch block that encloses a position of writeFileSafe: the outer try
\* (lines 89-120), the try around restoreBackup (lines 123-127), or none.
TryBlock == {"ensureDir", "checkPerm", "backupCopy", "backupCopyEnd", "writeTmp",
             "writeTmpEnd", "rename", "removeBackup"}
RestoreTry == {"restore", "restoreCopyEnd", "restoreRemove"}

HandlerFor_Unguarded(loc) ==
  IF loc \in TryBlock THEN "catch" ELSE "none"

HandlerFor(loc) ==
  IF loc \in TryBlock THEN "catch"
  ELSE IF loc \in RestoreTry THEN "catchRestore"
  ELSE "none"

\* return { success: true, filePath, backupCreated: backupPath !== null }
SuccessResult(p, bp) ==
  [success |-> TRUE, filePath |-> p, backupCreated |-> (bp # Null), error |-> "none"]

\* return { success: false, error: error.message, filePath }
FailureResult(p, msg) ==
  [success |-> FALSE, filePath |-> p, backupCreated |-> FALSE, error |-> msg]

\* control moves on without an exception
Goto(l) == wpc' = l /\ UNCHANGED <<error, result>>

\* the call at position loc throws msg: control moves to the enclosing catch.
\* The outer catch keeps the error; the catch around restoreBackup logs the
\* restore error and falls through to the failure return of the first error;
\* with no enclosing catch the exception leaves writeFileSafe.
Throw(loc, msg) ==
  LET h == HandlerFor(loc) IN
  /\ wpc' = (IF h = "catch" THEN "catch"
             ELSE IF h = "catchRestore" THEN "return" ELSE "raised")
  /\ error' = (IF h = "catch" THEN msg ELSE error)
  /\ result' = (IF h = "catchRestore" THEN FailureResult(cur.path, error) ELSE result)

\* what no step of writeFileSafe changes
writerFrame ==
  UNCHANGED <<dirWritable, files, shouldBackup, idx, results, batch, before,
              entry, watcherVars, extractVars, callVars, overlapVars,
              cleanVars>>

(***************************************************************************)
(* writeMultipleFiles: the loop head calls writeFileSafe for the next file *)
(***************************************************************************)
CallWriteFileSafe ==
  /\ wpc = "loop"
  /\ idx < Len(files)
  /\ wpc' = "ensureDir"
  /\ backupPath' = Null
  /\ error' = "none"
  /\ result' = NoResult
  /\ before' = fs[cur.path]["file"]
  /\ entry' = EntryState(cur.path)
  /\ UNCHANGED <<dirExists, dirWritable, fs, files, shouldBackup, idx, results, batch>>
  /\ UNCHANGED <<watcherVars, extractVars, callVars, overlapVars, cleanVars>>

\* await ensureDirectory(path.dirname(filePath))
EnsureDirectory ==
  /\ wpc = "ensureDir"
  /\ \/ dirExists' = TRUE /\ Goto("checkPerm")
     \/ Throw("ensureDir", "ensureDir failed") /\ UNCHANGED dirExists
  /\ UNCHANGED <<fs, backupPath>>
  /\ writerFrame

\* checkWritePermission catches the error of fs.access and returns false;
\* writeFileSafe then throws 'No write permission'
\* a permission check that always answers true
checkWritePermission_Always(writable) == TRUE

\* checkWritePermission: fs.access(dir, W_OK) succeeded
checkWritePermission(writable) == writable

CheckWritePermission ==
  /\ wpc = "checkPerm"
  /\ \/ checkWritePermission(dirWritable) /\ Goto("backup")
     \/ ~checkWritePermission(dirWritable) /\ Throw("checkPerm", "No write permission")
  /\ UNCHANGED <<dirExists, fs, backupPath>>
  /\ writerFrame

\* if (shouldBackup) backupPath = await createBackup(filePath): the
\* pathExists test of createBackup
CreateBackup ==
  /\ wpc = "backup"
  /\ IF shouldBackup /\ pathExists(cur.path, "file")
       THEN Goto("backupCopy")
       ELSE Goto("writeTmp")
  /\ UNCHANGED <<dirExists, fs, backupPath>>
  /\ writerFrame

\* fs.copy(filePath, backupPath) starts: the destination is opened and is
\* incomplete until the copy ends
BackupCopyBegin ==
  /\ wpc = "backupCopy"
  /\ \/ /\ fs' = [fs EXCEPT ![cur.path]["backup"] = Partial]
        /\ Goto("backupCopyEnd")
     \/ Throw("backupCopy", "backup copy failed") /\ UNCHANGED fs
  /\ UNCHANGED <<dirExists, backupPath>>
  /\ writerFrame

\* fs.copy(filePath, backupPath) ends; createBackup returns backupPath
BackupCopyEnd ==
  /\ wpc = "backupCopyEnd"
  /\ \/ /\ fs' = [fs EXCEPT ![cur.path]["backup"] = fs[cur.path]["file"]]
        /\ backupPath' = "backup"
        /\ Goto("writeTmp")
     \/ Throw("backupCopyEnd", "backup copy failed") /\ UNCHANGED <<fs, backupPath>>
  /\ UNCHANGED dirExists
  /\ writerFrame

\* fs.writeFile(tempPath, content) starts
WriteTempBegin ==
  /\ wpc = "writeTmp"
  /\ \/ /\ fs' = [fs EXCEPT ![cur.path]["tmp"] = Partial]
        /\ Goto("writeTmpEnd")
     \/ Throw("writeTmp", "temp write failed") /\ UNCHANGED fs
  /\ UNCHANGED <<dirExists, backupPath>>
  /\ writerFrame

\* fs.writeFile(tempPath, content) ends
WriteTempEnd ==
  /\ wpc = "writeTmpEnd"
  /\ \/ /\ fs' = [fs EXCEPT ![cur.path]["tmp"] = cur.content]
        /\ Goto("rename")
     \/ Throw("writeTmpEnd", "temp write failed") /\ UNCHANGED fs
  /\ UNCHANGED <<dirExists, backupPath>>
  /\ writerFrame

\* fs.rename(tempPath, filePath): one file-system operation
Rename ==
  /\ wpc = "rename"
  /\ \/ /\ fs' = [fs EXCEPT ![cur.path]["file"] = fs[cur.path]["tmp"],
                            ![cur.path]["tmp"] = Absent]
        /\ Goto("removeBackup")
     \/ Throw("rename", "rename failed") /\ UNCHANGED fs
  /\ UNCHANGED <<dirExists, backupPath>>
  /\ writerFrame

\* if (backupPath) await removeBackup(backupPath); return the success result
RemoveBackup ==
  /\ wpc = "removeBackup"
  /\ \/ /\ fs' = (IF backupPath # Null /\ pathExists(cur.path, "backup")
                    THEN [fs EXCEPT ![cur.path]["backup"] = Absent]
                    ELSE fs)
        /\ result' = SuccessResult(cur.path, backupPath)
        /\ wpc' = "return"
        /\ UNCHANGED error
     \/ /\ backupPath # Null /\ pathExists(cur.path, "backup")
        /\ Throw("removeBackup", "backup removal failed")
        /\ UNCHANGED fs
  /\ UNCHANGED <<dirExists, backupPath>>
  /\ writerFrame

\* catch (error): if (backupPath) restoreBackup(...), else the failure result
Catch ==
  /\ wpc = "catch"
  /\ IF backupPath # Null
       THEN Goto("restore")
       ELSE /\ result' = FailureResult(cur.path, error)
            /\ wpc' = "return"
            /\ UNCHANGED error
  /\ UNCHANGED <<dirExists, fs, backupPath>>
  /\ writerFrame

\* restoreBackup: if the backup exists, fs.copy(backupPath, originalPath) starts
RestoreCopyBegin ==
  /\ wpc = "restore"
  /\ \/ IF pathExists(cur.path, "backup")
          THEN /\ fs' = [fs EXCEPT ![cur.path]["file"] = Partial]
               /\ Goto("restoreCopyEnd")
          ELSE /\ result' = FailureResult(cur.path, error)
               /\ wpc' = "return"
               /\ UNCHANGED <<fs, error>>
     \/ /\ pathExists(cur.path, "backup")
        /\ Throw("restore", "restore failed")
        /\ UNCHANGED fs
  /\ UNCHANGED <<dirExists, backupPath>>
  /\ writerFrame

\* fs.copy(backupPath, originalPath) ends
RestoreCopyEnd ==
  /\ wpc = "restoreCopyEnd"
  /\ \/ /\ fs' = [fs EXCEPT ![cur.path]["file"] = fs[cur.path]["backup"]]
        /\ Goto("restoreRemove")
     \/ Throw("restoreCopyEnd", "restore failed") /\ UNCHANGED fs
  /\ UNCHANGED <<dirExists, backupPath>>
  /\ writerFrame

\* fs.remove(backupPath) of restoreBackup, then the failure result
RestoreRemove ==
  /\ wpc = "restoreRemove"
  /\ \/ /\ fs' = [fs EXCEPT ![cur.path]["backup"] = Absent]
        /\ result' = FailureResult(cur.path, error)
        /\ wpc' = "return"
        /\ UNCHANGED error
     \/ Throw("restoreRemove", "restore failed") /\ UNCHANGED fs
  /\ UNCHANGED <<dirExists, backupPath>>
  /\ writerFrame

\* writeFileSafe returns: results.push(result), next file
PushResult ==
  /\ wpc = "return"
  /\ results' = Append(results, result)
  /\ idx' = idx + 1
  /\ wpc' = "loop"
  /\ UNCHANGED <<dirExists, dirWritable, fs, files, shouldBackup, backupPath,
                 error, result, batch, before, entry>>
  /\ UNCHANGED <<watcherVars, extractVars, callVars, overlapVars, cleanVars>>

RECURSIVE CountSuccess(_)
\* results.filter(r => r.success).length
CountSuccess(rs) ==
  IF rs = <<>> THEN 0
  ELSE (IF Head(rs).success THEN 1 ELSE 0) + CountSuccess(Tail(rs))

\* results.every(r => r.success)
AllSuccess_Some(rs) == rs = <<>> \/ \E i \in 1..Len(rs) : rs[i].success

AllSuccess(rs) == \A i \in 1..Len(rs) : rs[i].success

\* the value returned by writeMultipleFiles
BatchResult(fl, rs) ==
  [success |-> AllSuccess(rs), total |-> Len(fl), successful |-> CountSuccess(rs),
   failed |-> Len(fl) - CountSuccess(rs), results |-> rs]

NoBatch == [success |-> FALSE, total |-> 0, successful |-> 0, failed |-> 0,
            results |-> <<>>]

\* the loop of writeMultipleFiles is over: build the aggregate and return
ReturnBatch ==
  /\ wpc = "loop"
  /\ idx = Len(files)
  /\ batch' = BatchResult(files, results)
  /\ wpc' = "done"
  /\ UNCHANGED <<dirExists, dirWritable, fs, files, shouldBackup, idx, results,
                 backupPath, error, result, before, entry>>
  /\ UNCHANGED <<watcherVars, extractVars, callVars, overlapVars, cleanVars>>

(***************************************************************************)
(* The file watcher: watchFiles(config, options)                           *)
(*                                                                         *)
(* Time is counted in ticks. A timeout that is due runs before the clock   *)
(* advances and before a further event is delivered.                       *)
(***************************************************************************)
\* debounceDelay = config.watchDebounce || 300, in ticks
Delay == 2

\* no timeout is pending (timer holds the deadline of the pending one)
NoTimer == {}
NoRun == [outcome |-> "none", regenerate |-> 0, error |-> 0, escaped |-> FALSE]

\* history of the watcher
NoHist ==
  [starts |-> 0,          \* calls of start()
   leaked |-> 0,          \* handles start() overwrote while they were open
   restarting |-> FALSE,  \* restart() is between its stop() and its start()
   watcherError |-> FALSE, \* the 'error' handler has run
   events |-> 0,          \* file-system events delivered
   bursts |-> 0,          \* bursts: an event at least Delay after the previous one
   lastEvent |-> -1,      \* time of the last event
   runsStarted |-> 0,     \* calls of generateTypes
   earlyStart |-> FALSE,  \* a run began less than Delay after the last event
   pendingMidRun |-> FALSE, \* an event arrived during a run; no run began since
   droppedIdle |-> FALSE, \* an expiry was discarded although no run was in flight
   dropped |-> 0,         \* expiries discarded by the re-entrancy guard
   lastRun |-> NoRun,     \* the last completed run
   runAfterStop |-> FALSE, \* a run began after stop() had closed the watcher
   atSignal |-> 0,        \* runs in flight at the signal and not yet completed
   aborted |-> 0]         \* of those, the runs cut off by process.exit

\* a due timeout comes first
TimerDue == \E deadline \in timer : now >= deadline

Callbacks == {"absent", "ok", "throws"}
Outcomes == {"success", "failure", "throws"}

\* if (isRegenerating) return;
Reentrant_Never(flag) == FALSE

Reentrant(flag) == flag

\* finally { isRegenerating = false }: the value of the guard after the run,
\* whether or not the try block threw
ReleaseGuard_EndOfTry(tryThrew) == tryThrew

ReleaseGuard(tryThrew) == FALSE

\* The callbacks of one run, lines 502-526. The try block calls onRegenerate
\* (success) or onError (success=false); it throws when generateTypes rejects
\* or when the callback it called throws. The catch block calls onError; an
\* exception of that call leaves the async function after the finally block.
TryThrew(outcome, onReg, onErr) ==
  \/ outcome = "throws"
  \/ outcome = "success" /\ onReg = "throws"
  \/ outcome = "failure" /\ onErr = "throws"

RunCallbacks(outcome, onReg, onErr) ==
  LET threw == TryThrew(outcome, onReg, onErr)
      inTry == IF outcome = "failure" /\ onErr # "absent" THEN 1 ELSE 0
      inCatch == IF threw /\ onErr # "absent" THEN 1 ELSE 0
  IN [outcome |-> outcome,
      regenerate |-> IF outcome = "success" /\ onReg # "absent" THEN 1 ELSE 0,
      error |-> inTry + inCatch,
      escaped |-> threw /\ onErr = "throws"]

\* get isWatching() { return watcher !== undefined; }
isWatching == watcher # "undefined"

watcherFrame ==
  UNCHANGED <<onRegenerateCb, onErrorCb, writerVars, extractVars, callVars,
              overlapVars, cleanVars>>

\* start(): watcher = chokidar.watch(...), handlers and signal handlers registered
Start ==
  /\ shutdown = "none"
  /\ hist.starts < MaxStarts
  /\ watcher' = "open"
  /\ hist' = [hist EXCEPT !.starts = @ + 1,
                          !.leaked = IF watcher = "open" THEN @ + 1 ELSE @]
  /\ UNCHANGED <<isRegenerating, timer, now, inFlight, shutdown>>
  /\ watcherFrame

\* stop(): if (watcher) await watcher.close(). A pending timeout is not cleared
\* and a run in flight is not awaited.
Stop ==
  /\ shutdown = "none"
  /\ watcher # "undefined"
  /\ watcher' = "closed"
  /\ UNCHANGED <<isRegenerating, timer, now, inFlight, shutdown, hist>>
  /\ watcherFrame

\* restart(): await stop() ...
RestartStop ==
  /\ shutdown = "none"
  /\ ~hist.restarting
  /\ hist.starts < MaxStarts
  /\ watcher' = IF watcher = "undefined" THEN watcher ELSE "closed"
  /\ hist' = [hist EXCEPT !.restarting = TRUE]
  /\ UNCHANGED <<isRegenerating, timer, now, inFlight, shutdown>>
  /\ watcherFrame

\* ... return start()
RestartStart ==
  /\ shutdown = "none"
  /\ hist.restarting
  /\ watcher' = "open"
  /\ hist' = [hist EXCEPT !.restarting = FALSE,
                          !.starts = @ + 1,
                          !.leaked = IF watcher = "open" THEN @ + 1 ELSE @]
  /\ UNCHANGED <<isRegenerating, timer, now, inFlight, shutdown>>
  /\ watcherFrame

\* the 'error' handler: the error goes to onError, no run is started
WatcherError ==
  /\ shutdown # "exited"
  /\ watcher = "open" \/ hist.leaked > 0
  /\ ~hist.watcherError
  /\ hist' = [hist EXCEPT !.watcherError = TRUE]
  /\ UNCHANGED <<watcher, isRegenerating, timer, now, inFlight, shutdown>>
  /\ watcherFrame

\* the 'change', 'add' and 'unlink' handlers: regenerate(filePath), that is
\* clearTimeout(timeoutId); timeoutId = setTimeout(..., delay)
WatchEvent ==
  /\ shutdown # "exited"
  /\ watcher = "open" \/ hist.leaked > 0
  /\ hist.events < MaxEvents
  /\ ~TimerDue
  /\ timer' = {now + Delay}
  /\ hist' = [hist EXCEPT
       !.events = @ + 1,
       !.bursts = IF hist.lastEvent = -1 \/ now >= hist.lastEvent + Delay
                    THEN @ + 1 ELSE @,
       !.lastEvent = now,
       !.pendingMidRun = @ \/ inFlight > 0]
  /\ UNCHANGED <<watcher, isRegenerating, now, inFlight, shutdown>>
  /\ watcherFrame

\* time passes
Tick ==
  /\ shutdown # "exited"
  /\ now < MaxTime
  /\ ~TimerDue
  /\ now' = now + 1
  /\ UNCHANGED <<watcher, isRegenerating, timer, inFlight, shutdown, hist>>
  /\ watcherFrame

\* the timeout expires: the debounced function runs up to its first await.
\* Lines 494-502: return if the guard is set, else set it and call generateTypes.
TimerFire ==
  /\ shutdown # "exited"
  /\ TimerDue
  /\ timer' = NoTimer
  /\ IF Reentrant(isRegenerating)
       THEN /\ hist' = [hist EXCEPT !.dropped = @ + 1,
                                    !.droppedIdle = @ \/ inFlight = 0]
            /\ UNCHANGED <<isRegenerating, inFlight>>
       ELSE /\ isRegenerating' = TRUE
            /\ inFlight' = inFlight + 1
            /\ hist' = [hist EXCEPT
                 !.runsStarted = @ + 1,
                 !.earlyStart = @ \/ now < hist.lastEvent + Delay,
                 !.runAfterStop = @ \/ (watcher = "closed" /\ shutdown = "none"
                                         /\ hist.leaked = 0),
                 !.pendingMidRun = FALSE]
  /\ UNCHANGED <<watcher, now, shutdown>>
  /\ watcherFrame

\* generateTypes settles: the rest of the async function, lines 504-526
RunComplete ==
  /\ shutdown # "exited"
  /\ inFlight > 0
  /\ \E outcome \in Outcomes :
       /\ hist' = [hist EXCEPT
            !.lastRun = RunCallbacks(outcome, onRegenerateCb, onErrorCb),
            !.atSignal = 0]
       /\ isRegenerating' =
            ReleaseGuard(TryThrew(outcome, onRegenerateCb, onErrorCb))
  /\ inFlight' = inFlight - 1
  /\ UNCHANGED <<watcher, timer, now, shutdown>>
  /\ watcherFrame

\* SIGINT / SIGTERM: shutdown() calls stop(), which closes the handle
Signal ==
  /\ shutdown = "none"
  /\ hist.starts > 0
  /\ shutdown' = "closing"
  /\ watcher' = "closed"
  /\ hist' = [hist EXCEPT !.atSignal = inFlight]
  /\ UNCHANGED <<isRegenerating, timer, now, inFlight>>
  /\ watcherFrame

\* await stop() is over: process.exit(0)
Exit ==
  /\ shutdown = "closing"
  /\ shutdown' = "exited"
  /\ hist' = [hist EXCEPT !.aborted = hist.atSignal]
  /\ UNCHANGED <<watcher, isRegenerating, timer, now, inFlight>>
  /\ watcherFrame

(***************************************************************************)
(* Batch extraction: parseMongooseModels(directory)                        *)
(*                                                                         *)
(* A source file is identified by its position in the list of              *)
(* findMongooseModels. What require() of the file gives: it throws, it     *)
(* exports nothing recognizable, or it exports one or two models.          *)
(***************************************************************************)
LoadKinds == {"throws", "empty", "one", "two"}

\* extractSchemaFromFile: the {modelName, schema} pairs of file f; null (here
\* the empty sequence, which parseMongooseModel treats alike) when require
\* throws (the catch, with console.warn) and when no export is a model
extractSchemaFromFile(kinds, f) ==
  IF kinds[f] = "throws" THEN <<>>
  ELSE IF kinds[f] = "empty" THEN <<>>
  ELSE IF kinds[f] = "one" THEN <<[modelName |-> <<f, 1>>]>>
  ELSE <<[modelName |-> <<f, 1>>], [modelName |-> <<f, 2>>]>>

\* normalizeModel({modelName, fields, source: 'mongoose', filePath}) without
\* the field list
normalizeModel(modelName, source, filePath) ==
  [modelName |-> modelName, tableName |-> modelName, source |-> source,
   filePath |-> filePath]

\* parseMongooseModel: null (the empty sequence) or the normalized models
parseMongooseModel(kinds, f) ==
  LET extracted == extractSchemaFromFile(kinds, f) IN
  [k \in 1..Len(extracted) |->
     normalizeModel(extracted[k].modelName, "mongoose", f)]

RECURSIVE parseMongooseModels(_, _)
\* the models parseMongooseModels returns for the first n files
parseMongooseModels(kinds, n) ==
  IF n = 0 THEN <<>>
  ELSE parseMongooseModels(kinds, n - 1) \o parseMongooseModel(kinds, n)

extractFrame ==
  UNCHANGED <<srcFiles, writerVars, watcherVars, callVars, overlapVars, cleanVars>>

\* one iteration of the loop of parseMongooseModels
ParseNextFile ==
  /\ xpc = "loop"
  /\ xi < Len(srcFiles)
  /\ LET parsedModels == parseMongooseModel(srcFiles, xi + 1) IN
       models' = IF parsedModels # <<>> THEN models \o parsedModels ELSE models
  /\ warnings' = IF srcFiles[xi + 1] = "throws"
                   THEN Append(warnings, xi + 1) ELSE warnings
  /\ xi' = xi + 1
  /\ UNCHANGED xpc
  /\ extractFrame

\* return models
ReturnModels ==
  /\ xpc = "loop"
  /\ xi = Len(srcFiles)
  /\ xpc' = "done"
  /\ UNCHANGED <<xi, models, warnings>>
  /\ extractFrame

RECURSIVE SeqsUpTo(_, _)
\* the sequences over S of length at most n
SeqsUpTo(S, n) ==
  IF n = 0 THEN {<<>>}
  ELSE LET shorter == SeqsUpTo(S, n - 1) IN
       shorter \cup {Append(q, x) : q \in shorter, x \in S}

(***************************************************************************)
(* JavaScript values                                                       *)
(*                                                                         *)
(* A value is a record [k, v]: k is the kind and v the payload. An object  *)
(* literal is the sequence of its <<key, value>> entries in declaration    *)
(* order (the order of Object.entries); a function is known by its name.   *)
(***************************************************************************)
Undef == [k |-> "undef", v |-> ""]
JSNull == [k |-> "null", v |-> ""]
Bool(b) == [k |-> "bool", v |-> b]
Num(n) == [k |-> "num", v |-> n]
Str(s) == [k |-> "str", v |-> s]
Fn(name) == [k |-> "fn", v |-> name]
Arr(elems) == [k |-> "arr", v |-> elems]
Obj(entries) == [k |-> "obj", v |-> entries]

\* ToBoolean(x): the test of `x || d`, `x && y`, `!x` and `if (x)`
Truthy(x) ==
  CASE x.k \in {"undef", "null"} -> FALSE
    [] x.k = "bool" -> x.v
    [] x.k = "num" -> x.v # 0
    [] x.k = "str" -> x.v # ""
    [] OTHER -> TRUE

\* x || d
Or(x, d) == IF Truthy(x) THEN x ELSE d

\* x && y
And(x, y) == IF Truthy(x) THEN y ELSE x

\* typeof x === 'object'
TypeofObject(x) == x.k \in {"null", "arr", "obj"}

\* Array.isArray(x)
IsArray(x) == x.k = "arr"

\* key in x, for an object x
Has(x, key) == x.k = "obj" /\ \E i \in 1..Len(x.v) : x.v[i][1] = key

\* x.key for a value x that is neither null nor undefined: an own property of
\* an object literal or of a record, the name of a function, undefined otherwise
Get(x, key) ==
  IF "k" \notin DOMAIN x
  THEN IF key \in DOMAIN x THEN x[key] ELSE Undef
  ELSE IF Has(x, key)
       THEN x.v[CHOOSE i \in 1..Len(x.v) : x.v[i][1] = key][2]
       ELSE IF x.k = "fn" /\ key = "name" THEN Str(x.v)
       ELSE Undef

(***************************************************************************)
(* The Mongoose parser: extractFieldType and parseSchemaFields             *)
(***************************************************************************)
STANDARD_TYPES ==
  [STRING |-> "string", NUMBER |-> "number", BOOLEAN |-> "boolean",
   DATE |-> "Date", ARRAY |-> "array", OBJECT |-> "object", ANY |-> "any",
   NULL |-> "null", UNDEFINED |-> "undefined"]

StandardTypeNames == {STANDARD_TYPES[key] : key \in DOMAIN STANDARD_TYPES}

MONGOOSE_TYPE_MAP ==
  "String" :> STANDARD_TYPES.STRING @@
  "Number" :> STANDARD_TYPES.NUMBER @@
  "Boolean" :> STANDARD_TYPES.BOOLEAN @@
  "Date" :> STANDARD_TYPES.DATE @@
  "Buffer" :> STANDARD_TYPES.STRING @@
  "ObjectId" :> STANDARD_TYPES.STRING @@
  "Mixed" :> "Record<string, any>" @@
  "Decimal128" :> STANDARD_TYPES.NUMBER @@
  "Map" :> STANDARD_TYPES.OBJECT @@
  "Schema.Types.String" :> STANDARD_TYPES.STRING @@
  "Schema.Types.Number" :> STANDARD_TYPES.NUMBER @@
  "Schema.Types.Boolean" :> STANDARD_TYPES.BOOLEAN @@
  "Schema.Types.Date" :> STANDARD_TYPES.DATE @@
  "Schema.Types.ObjectId" :> STANDARD_TYPES.STRING @@
  "Schema.Types.Mixed" :> "Record<string, any>" @@
  "Schema.Types.Decimal128" :> STANDARD_TYPES.NUMBER @@
  "Schema.Types.Map" :> STANDARD_TYPES.OBJECT

\* the properties every object literal inherits from Object.prototype
ObjectPrototypeKeys ==
  {"constructor", "toString", "valueOf", "hasOwnProperty", "isPrototypeOf",
   "propertyIsEnumerable", "toLocaleString"}

\* MONGOOSE_TYPE_MAP[typeName]: an own entry, an inherited method, or undefined
TypeMapLookup(typeName) ==
  IF typeName \in DOMAIN MONGOOSE_TYPE_MAP THEN Str(MONGOOSE_TYPE_MAP[typeName])
  ELSE IF typeName \in ObjectPrototypeKeys THEN Fn(typeName)
  ELSE Undef

\* a type-info object with no property set
NoTypeInfo ==
  [type |-> Undef, isArray |-> Undef, arrayOf |-> Undef, isReference |-> Undef,
   referenceTo |-> Undef, isEnum |-> Undef, enumValues |-> Undef]

\* the array branch without the element's enum flag and values
ArrayTypeInfo(innerType) ==
  [NoTypeInfo EXCEPT !.type = Str(STANDARD_TYPES.ARRAY),
                     !.isArray = Bool(TRUE),
                     !.arrayOf = innerType.type,
                     !.isReference = innerType.isReference,
                     !.referenceTo = innerType.referenceTo]

\* both overlays applied, one after the other
TypeOverlays_Both(typeInfo, fieldDef) ==
  LET withEnum == IF Truthy(Get(fieldDef, "enum"))
                  THEN [typeInfo EXCEPT !.isEnum = Bool(TRUE),
                                        !.enumValues = Get(fieldDef, "enum")]
                  ELSE typeInfo
  IN IF Truthy(Get(fieldDef, "ref"))
     THEN [withEnum EXCEPT !.isReference = Bool(TRUE),
                           !.referenceTo = Get(fieldDef, "ref")]
     ELSE withEnum

\* the overlays of an object definition with a type key: enum returns first
TypeOverlays(typeInfo, fieldDef) ==
  IF Truthy(Get(fieldDef, "enum"))
  THEN [typeInfo EXCEPT !.isEnum = Bool(TRUE), !.enumValues = Get(fieldDef, "enum")]
  ELSE IF Truthy(Get(fieldDef, "ref"))
  THEN [typeInfo EXCEPT !.isReference = Bool(TRUE),
                        !.referenceTo = Get(fieldDef, "ref")]
  ELSE typeInfo

RECURSIVE extractFieldType(_)
extractFieldType(fieldDef) ==
  IF IsArray(fieldDef)
  THEN IF Len(fieldDef.v) = 0
       THEN [NoTypeInfo EXCEPT !.type = Str(STANDARD_TYPES.ARRAY),
                               !.isArray = Bool(TRUE),
                               !.arrayOf = Str(STANDARD_TYPES.ANY)]
       ELSE ArrayTypeInfo(extractFieldType(fieldDef.v[1]))
  ELSE IF Truthy(fieldDef) /\ TypeofObject(fieldDef) /\ Truthy(Get(fieldDef, "type"))
  THEN TypeOverlays(extractFieldType(Get(fieldDef, "type")), fieldDef)
  ELSE IF Truthy(fieldDef) /\ TypeofObject(fieldDef) /\ Truthy(Get(fieldDef, "enum"))
  THEN [NoTypeInfo EXCEPT !.type = Str(STANDARD_TYPES.STRING),
                          !.isEnum = Bool(TRUE),
                          !.enumValues = Get(fieldDef, "enum")]
  ELSE IF fieldDef.k \in {"fn", "str"}
  THEN [NoTypeInfo EXCEPT !.type = Or(TypeMapLookup(fieldDef.v), Str(STANDARD_TYPES.ANY)),
                          !.isReference = Bool(FALSE)]
  ELSE [NoTypeInfo EXCEPT !.type = Str(STANDARD_TYPES.ANY), !.isReference = Bool(FALSE)]

\* the first character of a field name ("" for the empty name)
FieldNames == {"name", "age", "_id", "a_b"}
FirstChar == [n \in FieldNames |->
                CASE n = "name" -> "n" [] n = "age" -> "a" [] n = "_id" -> "_"
                  [] n = "a_b" -> "a"]

\* no field name counts as internal
StartsWithUnderscore_Never(fieldName) == FALSE

\* fieldName.startsWith('_')
StartsWithUnderscore(fieldName) == FirstChar[fieldName] = "_"

\* schema.paths[fieldName].isRequired as Mongoose fills it: a path exists for a
\* definition with a type, and isRequired is set by a truthy required option
PathIsRequired(fieldDef) ==
  /\ fieldDef.k = "obj"
  /\ Truthy(Get(fieldDef, "type"))
  /\ Truthy(Get(fieldDef, "required"))

\* fieldDef && typeof fieldDef === 'object'
IsObjectDef(fieldDef) == Truthy(fieldDef) /\ TypeofObject(fieldDef)

\* the condition under which a definition is an embedded document
IsNestedDef(fieldDef) ==
  /\ IsObjectDef(fieldDef)
  /\ ~Truthy(Get(fieldDef, "type"))
  /\ ~Truthy(Get(fieldDef, "enum"))
  /\ ~IsArray(fieldDef)

\* the field list as a value: an array of field objects
Fields(seq) == Arr(seq)

\* `required` of parseSchemaFields: false unless the definition is an object
\* whose required is exactly true, or Mongoose marks the path required
ParsedRequired(fieldDef, hasPath) ==
  \/ IsObjectDef(fieldDef) /\ Get(fieldDef, "required") = Bool(TRUE)
  \/ hasPath /\ PathIsRequired(fieldDef)

\* one element pushed by parseSchemaFields
ParsedField(fieldName, fieldDef, hasPath, nested) ==
  LET typeInfo == extractFieldType(fieldDef) IN
  [name |-> Str(fieldName),
   type |-> IF Truthy(nested) THEN Str(STANDARD_TYPES.OBJECT) ELSE typeInfo.type,
   required |-> Bool(ParsedRequired(fieldDef, hasPath)),
   isArray |-> Or(typeInfo.isArray, Bool(FALSE)),
   arrayOf |-> Or(typeInfo.arrayOf, JSNull),
   isReference |-> Or(typeInfo.isReference, Bool(FALSE)),
   referenceTo |-> Or(typeInfo.referenceTo, JSNull),
   isEnum |-> Or(typeInfo.isEnum, Bool(FALSE)),
   isEnumArray |-> And(typeInfo.isArray, typeInfo.isEnum),
   enumValues |-> Or(typeInfo.enumValues, JSNull),
   defaultValue |-> IF IsObjectDef(fieldDef) /\ Has(fieldDef, "default")
                    THEN Get(fieldDef, "default") ELSE JSNull,
   isUnique |-> IF ~Truthy(fieldDef) THEN fieldDef
                ELSE Bool(TypeofObject(fieldDef) /\ Get(fieldDef, "unique") = Bool(TRUE)),
   nested |-> nested]

\* parseSchemaFields(schemaObj, schemaPaths) over the first n entries of
\* schemaObj; hasPaths is FALSE for the recursive call, which passes no paths
RECURSIVE parseSchemaFieldsUpTo(_, _, _)
parseSchemaFieldsUpTo(schemaObj, hasPaths, n) ==
  IF n = 0 THEN <<>>
  ELSE LET fieldName == schemaObj.v[n][1]
           fieldDef == schemaObj.v[n][2]
           sofar == parseSchemaFieldsUpTo(schemaObj, hasPaths, n - 1)
           nested == IF IsNestedDef(fieldDef)
                     THEN Fields(parseSchemaFieldsUpTo(fieldDef, FALSE, Len(fieldDef.v)))
                     ELSE JSNull
       IN IF StartsWithUnderscore(fieldName) THEN sofar
          ELSE Append(sofar, ParsedField(fieldName, fieldDef, hasPaths, nested))

parseSchemaFields(schemaObj, hasPaths) ==
  parseSchemaFieldsUpTo(schemaObj, hasPaths, Len(schemaObj.v))

(***************************************************************************)
(* The normalizer: normalizeField, normalizeModel, validateSchema          *)
(***************************************************************************)
\* !!field.required: an absent attribute counts as not required
RequiredOf_Truthy(required) == Truthy(required)

\* field.required !== false
RequiredOf(required) == required # Bool(FALSE)

\* the attributes copied as they are, without defaults
normalizeField_Sparse(field) ==
  [name |-> Get(field, "name"), type |-> Get(field, "type"),
   required |-> Get(field, "required"), isPrimary |-> Get(field, "isPrimary"),
   isArray |-> Get(field, "isArray"), arrayOf |-> Get(field, "arrayOf"),
   isEnum |-> Get(field, "isEnum"), enumValues |-> Get(field, "enumValues"),
   isReference |-> Get(field, "isReference"),
   referenceTo |-> Get(field, "referenceTo"),
   defaultValue |-> Get(field, "defaultValue"),
   description |-> Get(field, "description"), nested |-> Get(field, "nested")]

normalizeField(field) ==
  [name |-> Get(field, "name"),
   type |-> Or(Get(field, "type"), Str(STANDARD_TYPES.ANY)),
   required |-> Bool(RequiredOf(Get(field, "required"))),
   isPrimary |-> Or(Get(field, "isPrimary"), Bool(FALSE)),
   isArray |-> Or(Get(field, "isArray"), Bool(FALSE)),
   arrayOf |-> Or(Get(field, "arrayOf"), JSNull),
   isEnum |-> Or(Get(field, "isEnum"), Bool(FALSE)),
   enumValues |-> Or(Get(field, "enumValues"), JSNull),
   isReference |-> Or(Get(field, "isReference"), Bool(FALSE)),
   referenceTo |-> Or(Get(field, "referenceTo"), JSNull),
   defaultValue |-> Or(Get(field, "defaultValue"), JSNull),
   description |-> Or(Get(field, "description"), JSNull),
   nested |-> Or(Get(field, "nested"), JSNull)]

\* normalizeModel(model) with its field list
normalizeSchemaModel(model) ==
  LET fields == Or(Get(model, "fields"), Arr(<<>>)) IN
  [modelName |-> Get(model, "modelName"),
   tableName |-> Or(Get(model, "tableName"), Get(model, "modelName")),
   fields |-> Arr([i \in 1..Len(fields.v) |-> normalizeField(fields.v[i])]),
   description |-> Or(Get(model, "description"), JSNull),
   source |-> Or(Get(model, "source"), Str("unknown")),
   filePath |-> Or(Get(model, "filePath"), JSNull)]

\* parseMongooseModel for one extracted {modelName, schema}
parseSchemaModel(modelName, schemaObj, filePath) ==
  normalizeSchemaModel([modelName |-> modelName,
                        fields |-> Fields(parseSchemaFields(schemaObj, TRUE)),
                        source |-> Str("mongoose"),
                        filePath |-> filePath])

\* x is null or undefined: reading a property of x raises a TypeError
IsNullish(x) == "k" \in DOMAIN x /\ x.k \in {"undef", "null"}

\* schema.fields?.forEach is not callable: fields is neither nullish nor an array
ForEachMissing(fields) == ~IsNullish(fields) /\ ~IsArray(fields)

\* the callback of forEach raises: an element is null or undefined
ElementRaises(fields) ==
  /\ IsArray(fields)
  /\ \E i \in 1..Len(fields.v) : IsNullish(fields.v[i])

\* the errors the callback of forEach pushes for the first n elements
RECURSIVE FieldErrors(_, _)
FieldErrors(fields, n) ==
  IF n = 0 THEN <<>>
  ELSE FieldErrors(fields, n - 1)
       \o (IF ~Truthy(Get(fields.v[n], "name"))
           THEN <<[msg |-> "must have a name", index |-> n - 1]>> ELSE <<>>)
       \o (IF ~Truthy(Get(fields.v[n], "type"))
           THEN <<[msg |-> "must have a type", index |-> n - 1]>> ELSE <<>>)

\* what a call that raised produces instead of a return value
Raised(message) == [threw |-> TRUE, message |-> message]

validateSchema(schema) ==
  IF IsNullish(schema) THEN Raised("TypeError")
  ELSE LET fields == Get(schema, "fields")
           errors ==
             (IF ~Truthy(Get(schema, "modelName"))
              THEN <<[msg |-> "Model must have a name", index |-> -1]>> ELSE <<>>)
             \o (IF ~IsArray(fields)
                 THEN <<[msg |-> "Model must have fields array", index |-> -1]>>
                 ELSE <<>>)
             \o (IF IsArray(fields) THEN FieldErrors(fields, Len(fields.v)) ELSE <<>>)
       IN IF ForEachMissing(fields) \/ ElementRaises(fields)
          THEN Raised("TypeError")
          ELSE [threw |-> FALSE, valid |-> errors = <<>>, errors |-> errors]

(***************************************************************************)
(* Single calls: the argument is chosen at the start, the call returns     *)
(* (or raises) in one step.                                                *)
(***************************************************************************)
MaxFields == 2
MaxElems == 2

NoCall == [fn |-> "none", arg |-> <<>>]
NoRet == [done |-> FALSE, value |-> <<>>]
Returned(value) == [done |-> TRUE, value |-> value]

\* the sequences over S of length at most n without a repeated element
DistinctSeqsUpTo(S, n) ==
  UNION {{q \in [1..len -> S] : \A i, j \in 1..len : q[i] = q[j] => i = j} :
         len \in 0..n}

\* { type: marker, ...options } as written in a schema
Typed(marker, options) == Obj(<<<<"type", marker>>>> \o options)

EnumAB == Arr(<<Str("a"), Str("b")>>)

\* definitions of embedded documents
NestedDefs ==
  {Obj(<<>>),
   Obj(<<<<"_id", Fn("ObjectId")>>, <<"name", Fn("String")>>,
         <<"age", Typed(Fn("Number"), <<<<"required", Bool(TRUE)>>>>)>>>>),
   Obj(<<<<"age", Fn("Number")>>,
         <<"a_b", Obj(<<<<"_id", Fn("String")>>, <<"name", Fn("Mixed")>>>>)>>,
         <<"name", Arr(<<Fn("String")>>)>>>>)}

\* field definitions a schema is built from
FieldDefs ==
  {Fn("String"), Fn("Number"), Fn("Mixed"), Fn("Custom"),
   Str("Schema.Types.ObjectId"), Str("constructor"),
   JSNull, Num(0),
   Arr(<<>>), Arr(<<Fn("String")>>),
   Arr(<<Typed(Fn("String"), <<<<"enum", EnumAB>>>>)>>),
   Arr(<<Typed(Fn("ObjectId"), <<<<"ref", Str("User")>>>>)>>),
   Typed(Fn("String"), <<>>),
   Typed(Fn("String"), <<<<"required", Bool(TRUE)>>>>),
   Typed(Fn("String"), <<<<"required", Bool(FALSE)>>>>),
   Typed(Fn("String"), <<<<"enum", EnumAB>>>>),
   Typed(Fn("ObjectId"), <<<<"ref", Str("User")>>>>),
   Typed(Fn("String"), <<<<"enum", EnumAB>>, <<"ref", Str("User")>>>>),
   Typed(Fn("Number"), <<<<"default", Num(0)>>, <<"unique", Bool(TRUE)>>>>),
   Typed(Fn("Boolean"), <<<<"default", Bool(FALSE)>>>>),
   Typed(Fn("String"), <<<<"default", Str("")>>>>),
   Typed(Fn("String"), <<<<"default", Str("x")>>>>),
   Typed(Arr(<<Fn("Number")>>), <<>>),
   Obj(<<<<"enum", EnumAB>>>>)} \cup NestedDefs

\* schema.obj: at most MaxFields entries with distinct keys
SchemaObjs ==
  {Obj([i \in 1..Len(names) |-> <<names[i], defs[i]>>]) :
     <<names, defs>> \in
       {nd \in DistinctSeqsUpTo(FieldNames, MaxFields) \X SeqsUpTo(FieldDefs, MaxFields) :
          Len(nd[1]) = Len(nd[2])}}

\* values a raw field carries in its required attribute
RequiredValues ==
  {Undef, JSNull, Bool(TRUE), Bool(FALSE), Num(0), Num(1), Str(""), Str("false")}

\* raw fields handed to normalizeField, with and without a required attribute
RawFields ==
  [name : {Str("name")}, type : {Undef, Str("string")}]
  \cup [name : {Str("name")}, type : {Undef, Str("string")}, required : RequiredValues]
  \cup [name : {Str("name")}, type : {Str("string")},
        isPrimary : {Undef, Bool(TRUE), Bool(FALSE)},
        defaultValue : {Undef, JSNull, Bool(FALSE), Num(0), Str(""), Str("x")},
        description : {Undef, Str("text")},
        nested : {Undef, JSNull, Arr(<<>>)}]

\* definitions handed to extractFieldType: those of a schema, further markers
\* and values of no recognized shape
ExtractArgs ==
  FieldDefs \cup {Fn(name) : name \in DOMAIN MONGOOSE_TYPE_MAP}
            \cup {Str(name) : name \in DOMAIN MONGOOSE_TYPE_MAP}
            \cup {Fn("constructor"), Str("toString"), Str("Nope"), Str(""),
                  Undef, Bool(TRUE), Bool(FALSE), Num(1)}

\* raw models handed to normalizeModel
RawModels ==
  [modelName : {Str("User")}]
  \cup [modelName : {Str("User")},
        tableName : {Undef, Str(""), Str("users")},
        source : {Undef, Str(""), Str("prisma")},
        description : {Undef, Str("text")},
        filePath : {Undef, Str("models/user.js")},
        fields : {Undef, JSNull} \cup {Arr(fields) : fields \in SeqsUpTo(
                    [name : {Str("name")}, type : {Undef, Str("string")}], 1)}]

\* elements of a fields array handed to validateSchema
FieldElems ==
  {JSNull, Undef, Num(1), Str("s"), Obj(<<>>),
   Obj(<<<<"name", Str("name")>>, <<"type", Str("string")>>>>),
   Obj(<<<<"name", Str("")>>, <<"type", Str("string")>>>>),
   Obj(<<<<"name", Str("age")>>>>)}

\* models handed to validateSchema: fields absent, not an array, or an array
SchemaInputs ==
  [modelName : {Str("User"), Str("")}]
  \cup [modelName : {Str("User"), Str("")},
        fields : {Undef, JSNull, Obj(<<>>), Str("fields"), Num(3)}
                 \cup {Arr(elems) : elems \in SeqsUpTo(FieldElems, MaxElems)}]

callFrame ==
  UNCHANGED <<call, writerVars, watcherVars, extractVars, overlapVars, cleanVars>>

\* parseMongooseModel for a file with one schema
CallParseMongooseModel ==
  /\ call.fn = "parseMongooseModel" /\ ~ret.done
  /\ ret' = Returned(parseSchemaModel(Str("User"), call.arg, Str("models/user.js")))
  /\ callFrame

CallExtractFieldType ==
  /\ call.fn = "extractFieldType" /\ ~ret.done
  /\ ret' = Returned(extractFieldType(call.arg))
  /\ callFrame

CallNormalizeField ==
  /\ call.fn = "normalizeField" /\ ~ret.done
  /\ ret' = Returned(normalizeField(call.arg))
  /\ callFrame

CallNormalizeModel ==
  /\ call.fn = "normalizeModel" /\ ~ret.done
  /\ ret' = Returned(normalizeSchemaModel(call.arg))
  /\ callFrame

CallValidateSchema ==
  /\ call.fn = "validateSchema" /\ ~ret.done
  /\ ret' = Returned(validateSchema(call.arg))
  /\ callFrame

(***************************************************************************)
(* Errors: TypeBridgeError / createError (src/errors/error-handler.js)     *)
(***************************************************************************)
\* n suggestion strings
Suggestions(n) == Arr([i \in 1..n |-> Str("suggestion")])

\* ERROR_CODES: message, suggestions and whether a docsUrl is given
ERROR_CODES ==
  "E1001" :> [message |-> Str("No supported ORM detected"),
              suggestions |-> Suggestions(4), docsUrl |-> Str("url")] @@
  "E1002" :> [message |-> Str("No models found"),
              suggestions |-> Suggestions(4), docsUrl |-> Str("url")] @@
  "E1003" :> [message |-> Str("Invalid configuration"),
              suggestions |-> Suggestions(3), docsUrl |-> Str("url")] @@
  "E1004" :> [message |-> Str("No write permission"),
              suggestions |-> Suggestions(3), docsUrl |-> Undef] @@
  "E1005" :> [message |-> Str("Schema parsing failed"),
              suggestions |-> Suggestions(3), docsUrl |-> Str("url")] @@
  "E1006" :> [message |-> Str("Schema validation failed"),
              suggestions |-> Suggestions(3), docsUrl |-> Undef] @@
  "E1007" :> [message |-> Str("File write failed"),
              suggestions |-> Suggestions(3), docsUrl |-> Undef] @@
  "E1008" :> [message |-> Str("Unsupported ORM"),
              suggestions |-> Suggestions(5), docsUrl |-> Str("url")]

\* ERROR_CODES[code]: an own entry, an inherited method, or undefined
ErrorInfo(code) ==
  IF code.k = "str" /\ code.v \in DOMAIN ERROR_CODES THEN ERROR_CODES[code.v]
  ELSE IF code.k = "str" /\ code.v \in ObjectPrototypeKeys THEN Fn(code.v)
  ELSE Undef

\* the text of a template literal
Template(parts) == [k |-> "template", v |-> parts]

\* new TypeBridgeError(code, details): the early return for an unknown code
\* leaves suggestions, docsUrl and details unset and the name of Error
TypeBridgeError(code, details) ==
  LET errorInfo == ErrorInfo(code) IN
  IF "k" \in DOMAIN errorInfo /\ ~Truthy(errorInfo)
  THEN [message |-> Template(<<"Unknown error code: ", code>>),
        code |-> Str("E0000"), suggestions |-> Undef, docsUrl |-> Undef,
        details |-> Undef, name |-> Str("Error")]
  ELSE [message |-> IF Get(errorInfo, "message") = Undef THEN Str("")
                    ELSE Get(errorInfo, "message"),
        code |-> code,
        suggestions |-> Get(errorInfo, "suggestions"),
        docsUrl |-> Get(errorInfo, "docsUrl"),
        details |-> details, name |-> Str("TypeBridgeError")]

createError(code, details) == TypeBridgeError(code, details)

\* codes passed to createError: the known ones and some that are not
ErrorCodeArgs ==
  {Str(code) : code \in DOMAIN ERROR_CODES}
  \cup {Str("E9999"), Str("E0000"), Str(""), Str("constructor"), Undef}

CallCreateError ==
  /\ call.fn = "createError" /\ ~ret.done
  /\ ret' = Returned(createError(call.arg, Obj(<<>>)))
  /\ callFrame

(***************************************************************************)
(* Configuration: mergeConfigs, resolvePaths, validateConfig, loadConfig   *)
(***************************************************************************)
DEFAULT_CONFIG ==
  "orm" :> Str("auto") @@
  "modelsPath" :> Str("./models") @@
  "schemaPath" :> Str("./prisma/schema.prisma") @@
  "outputPath" :> Str("./types") @@
  "outputMode" :> Str("single") @@
  "watch" :> Bool(FALSE) @@
  "watchDebounce" :> Num(300) @@
  "includeComments" :> Bool(TRUE) @@
  "exportType" :> Str("export") @@
  "readonly" :> Bool(FALSE) @@
  "namingConvention" :> Str("PascalCase") @@
  "exclude" :> Arr(<<Str("**/node_modules/**"), Str("**/*.test.{js,ts}"),
                     Str("**/*.spec.{js,ts}"), Str("**/__tests__/**")>>) @@
  "customTypeMap" :> Obj(<<>>) @@
  "resolveReferences" :> Bool(FALSE) @@
  "generateIndex" :> Bool(TRUE)

\* the entries of a config whose value is not undefined
Clean(config) ==
  [key \in {c \in DOMAIN config : config[c] # Undef} |-> config[key]]

\* Object.assign({}, DEFAULT_CONFIG, fileConfig, overrides) without the filter
mergeConfigs_Unfiltered(fileConfig, overrides) ==
  overrides @@ fileConfig @@ DEFAULT_CONFIG

\* mergeConfigs(fileConfig, overrides): later sources win
mergeConfigs(fileConfig, overrides) ==
  Clean(overrides) @@ Clean(fileConfig) @@ DEFAULT_CONFIG

pathKeys == {"modelsPath", "schemaPath", "outputPath"}

\* the path strings of the model that path.isAbsolute accepts
AbsolutePaths == {"/srv/types"}

\* path.resolve(projectRoot, p) for a relative p
ResolvedPath(projectRoot, p) == [k |-> "path", v |-> <<projectRoot, p.v>>]

resolvePaths(config, projectRoot) ==
  [key \in DOMAIN config |->
     IF key \in pathKeys /\ Truthy(config[key]) /\ config[key].v \notin AbsolutePaths
     THEN ResolvedPath(projectRoot, config[key])
     ELSE config[key]]

\* validateConfig(config).valid
validateConfig(config) ==
  /\ Truthy(config["outputMode"]) =>
       config["outputMode"] \in {Str("single"), Str("separate")}
  /\ config["exportType"] \in {Str("export"), Str("export default")}
  /\ config["orm"] \in {Str("auto"), Str("prisma"), Str("mongoose"),
                        Str("typeorm"), Str("sequelize")}

\* loadConfig({configPath, projectRoot, overrides}) with the content of the
\* config file already read (an absent file reads as {})
loadConfig(fileConfig, overrides, configPath, projectRoot) ==
  LET resolved == resolvePaths(mergeConfigs(fileConfig, overrides), projectRoot) IN
  IF ~validateConfig(resolved)
  THEN Raised("Failed to load configuration")
  ELSE [threw |-> FALSE,
        config |-> ("configPath" :> configPath @@ "projectRoot" :> Str(projectRoot))
                   @@ resolved]

\* keys and values a config file or the overrides set in the model
ConfigValues ==
  "outputPath" :> {Str("out"), Str("/srv/types"), JSNull} @@
  "outputMode" :> {Str("separate"), Str("both"), JSNull} @@
  "watchDebounce" :> {Num(100), Num(0), JSNull}

\* objects over the keys of ConfigValues, each key absent or set to a value of
\* ConfigValues or of extra
ConfigObjects(extra) ==
  UNION {{c \in [keys -> UNION {ConfigValues[key] : key \in DOMAIN ConfigValues} \cup extra] :
            \A key \in keys : c[key] \in ConfigValues[key] \cup extra} :
         keys \in SUBSET DOMAIN ConfigValues}

\* a config file is JSON and holds no undefined; an override may
ConfigArgs == [file : ConfigObjects({}), overrides : ConfigObjects({Undef})]

CallMergeConfigs ==
  /\ call.fn = "mergeConfigs" /\ ~ret.done
  /\ ret' = Returned(mergeConfigs(call.arg.file, call.arg.overrides))
  /\ callFrame

CallLoadConfig ==
  /\ call.fn = "loadConfig" /\ ~ret.done
  /\ ret' = Returned(loadConfig(call.arg.file, call.arg.overrides,
                                Str("type-bridge.config.json"), "/project"))
  /\ callFrame

(***************************************************************************)
(* Two writeFileSafe calls for one path whose steps interleave             *)
(* (file-writer.js).  Each call is the code of writeFileSafe, one step per *)
(* awaited fs call; every fs call is one step and none fails on its own:   *)
(* a call fails only when the other call took away what it needs.  The     *)
(* directory exists and is writable.                                       *)
(***************************************************************************)
Callers == {"a", "b"}

\* the content argument of each call
ocontent == [a |-> "c1", b |-> "c2"]

\* what the path holds before the calls, when it exists
Original == "c0"

overlapFrame ==
  UNCHANGED <<oshouldBackup, obefore, writerVars, watcherVars, extractVars,
              callVars, cleanVars>>

\* the call c moves to position pc
OGoto(c, pc) == opc' = [opc EXCEPT ![c] = pc]

\* the call c returns { success: ... }
OReturn(c, outcome) ==
  /\ opc' = [opc EXCEPT ![c] = "done"]
  /\ oresult' = [oresult EXCEPT ![c] = outcome]

\* writeFileSafe, lines 89-101: ensureDirectory and checkWritePermission pass
OverlapEnter ==
  \E c \in Callers :
    /\ opc[c] = "start"
    /\ OGoto(c, IF oshouldBackup[c] THEN "createBackup" ELSE "writeTemp")
    /\ UNCHANGED <<ofs, obackupPath, oresult, oinstalled>>
    /\ overlapFrame

\* createBackup: if (!(await fs.pathExists(filePath))) return null
OverlapCreateBackup ==
  \E c \in Callers :
    /\ opc[c] = "createBackup"
    /\ OGoto(c, IF ofs.file = Absent THEN "writeTemp" ELSE "backupCopy")
    /\ UNCHANGED <<ofs, obackupPath, oresult, oinstalled>>
    /\ overlapFrame

\* createBackup: await fs.copy(filePath, backupPath); return backupPath
OverlapBackupCopy ==
  \E c \in Callers :
    /\ opc[c] = "backupCopy"
    /\ IF ofs.file = Absent
         THEN /\ OGoto(c, "catch")
              /\ UNCHANGED <<ofs, obackupPath>>
         ELSE /\ ofs' = [ofs EXCEPT !.backup = ofs.file]
              /\ obackupPath' = [obackupPath EXCEPT ![c] = "set"]
              /\ OGoto(c, "writeTemp")
    /\ UNCHANGED <<oresult, oinstalled>>
    /\ overlapFrame

\* await fs.writeFile(tempPath, content, { encoding })
OverlapWriteTemp ==
  \E c \in Callers :
    /\ opc[c] = "writeTemp"
    /\ ofs' = [ofs EXCEPT !.tmp = ocontent[c]]
    /\ OGoto(c, "rename")
    /\ UNCHANGED <<obackupPath, oresult, oinstalled>>
    /\ overlapFrame

\* await fs.rename(tempPath, filePath): ENOENT when the temporary file is gone
OverlapRename ==
  \E c \in Callers :
    /\ opc[c] = "rename"
    /\ IF ofs.tmp = Absent
         THEN /\ OGoto(c, "catch")
              /\ UNCHANGED <<ofs, oresult, oinstalled>>
         ELSE /\ ofs' = [ofs EXCEPT !.file = ofs.tmp, !.tmp = Absent]
              /\ oinstalled' = [d \in Callers |-> oinstalled[d] \/ ofs.tmp = ocontent[d]]
              /\ IF obackupPath[c] = Null
                   THEN OReturn(c, "success")
                   ELSE OGoto(c, "removeBackup") /\ UNCHANGED oresult
    /\ UNCHANGED obackupPath
    /\ overlapFrame

\* removeBackup: if (backupPath && (await fs.pathExists(backupPath)))
OverlapRemoveBackupCheck ==
  \E c \in Callers :
    /\ opc[c] = "removeBackup"
    /\ IF ofs.backup = Absent
         THEN OReturn(c, "success")
         ELSE OGoto(c, "removeBackupRemove") /\ UNCHANGED oresult
    /\ UNCHANGED <<ofs, obackupPath, oinstalled>>
    /\ overlapFrame

\* removeBackup: await fs.remove(backupPath), which accepts a missing file
OverlapRemoveBackup ==
  \E c \in Callers :
    /\ opc[c] = "removeBackupRemove"
    /\ ofs' = [ofs EXCEPT !.backup = Absent]
    /\ OReturn(c, "success")
    /\ UNCHANGED <<obackupPath, oinstalled>>
    /\ overlapFrame

\* catch (error): if (backupPath) restoreBackup(...), then success: false
OverlapCatch ==
  \E c \in Callers :
    /\ opc[c] = "catch"
    /\ IF obackupPath[c] = Null
         THEN OReturn(c, "failure")
         ELSE OGoto(c, "restore") /\ UNCHANGED oresult
    /\ UNCHANGED <<ofs, obackupPath, oinstalled>>
    /\ overlapFrame

\* restoreBackup: if (await fs.pathExists(backupPath))
OverlapRestoreCheck ==
  \E c \in Callers :
    /\ opc[c] = "restore"
    /\ IF ofs.backup = Absent
         THEN OReturn(c, "failure")
         ELSE OGoto(c, "restoreCopy") /\ UNCHANGED oresult
    /\ UNCHANGED <<ofs, obackupPath, oinstalled>>
    /\ overlapFrame

\* restoreBackup: await fs.copy(backupPath, originalPath); an ENOENT is caught
\* by the inner try of writeFileSafe
OverlapRestoreCopy ==
  \E c \in Callers :
    /\ opc[c] = "restoreCopy"
    /\ IF ofs.backup = Absent
         THEN /\ OReturn(c, "failure")
              /\ UNCHANGED <<ofs, oinstalled>>
         ELSE /\ ofs' = [ofs EXCEPT !.file = ofs.backup]
              /\ oinstalled' = [d \in Callers |-> oinstalled[d] \/ ofs.backup = ocontent[d]]
              /\ OGoto(c, "restoreRemove") /\ UNCHANGED oresult
    /\ UNCHANGED obackupPath
    /\ overlapFrame

\* restoreBackup: await fs.remove(backupPath)
OverlapRestoreRemove ==
  \E c \in Callers :
    /\ opc[c] = "restoreRemove"
    /\ ofs' = [ofs EXCEPT !.backup = Absent]
    /\ OReturn(c, "failure")
    /\ UNCHANGED <<obackupPath, oinstalled>>
    /\ overlapFrame


(***************************************************************************)
(* cleanGeneratedFiles(outputDir, options) (file-writer.js).  A file name  *)
(* is the sequence of its characters.  fs.pathExists never throws;         *)
(* fs.readdir and fs.remove may.                                           *)
(***************************************************************************)
DirNames ==
  { <<"a", ".", "t", "s">>, <<"b", ".", "d", ".", "t", "s">>, <<".", "t", "s">>,
    <<"a", ".", "j", "s">>, <<"t", "s">>, <<"a", ".", "t", "s", "x">> }

\* String.prototype.endsWith
EndsWith(str, suffix) ==
  /\ Len(str) >= Len(suffix)
  /\ SubSeq(str, Len(str) - Len(suffix) + 1, Len(str)) = suffix

endsWithTs_NoDot(f) == EndsWith(f, <<"t", "s">>)

\* the filter of cleanGeneratedFiles: f => f.endsWith('.ts')
endsWithTs(f) == EndsWith(f, <<".", "t", "s">>)

\* kind tells which return statement produced the value; files is read only
\* when kind is "dryRun", deletedCount only when kind is "deleted"
CleanResult(kind, success, names, count) ==
  [kind |-> kind, success |-> success, files |-> names, deletedCount |-> count]

NoCleanResult == CleanResult("none", FALSE, {}, 0)

cleanFrame ==
  UNCHANGED <<dryRun, outDirBefore, writerVars, watcherVars, extractVars,
              callVars, overlapVars>>

\* if (!(await fs.pathExists(outputDir))) return { success: true, ... }
CleanPathExists ==
  /\ cpc = "start"
  /\ IF outDir.exists
       THEN cpc' = "readdir" /\ UNCHANGED cleanResult
       ELSE cpc' = "done" /\ cleanResult' = CleanResult("missing", TRUE, {}, 0)
  /\ UNCHANGED <<outDir, tsFiles, pending>>
  /\ cleanFrame

\* files = await fs.readdir(outputDir); tsFiles = files.filter(...);
\* if (dryRun) return { success: true, dryRun: true, files: tsFiles, ... }
CleanReaddir ==
  /\ cpc = "readdir"
  /\ \E throws \in BOOLEAN :
       IF throws
         THEN /\ cpc' = "done"
              /\ cleanResult' = CleanResult("error", FALSE, {}, 0)
              /\ UNCHANGED <<tsFiles, pending>>
         ELSE LET found == {f \in outDir.names : endsWithTs(f)} IN
              /\ tsFiles' = found
              /\ IF dryRun
                   THEN /\ cpc' = "done"
                        /\ cleanResult' = CleanResult("dryRun", TRUE, found, 0)
                        /\ UNCHANGED pending
                   ELSE /\ cpc' = "loop"
                        /\ pending' = found
                        /\ UNCHANGED cleanResult
  /\ UNCHANGED outDir
  /\ cleanFrame

\* for (const file of tsFiles) await fs.remove(path.join(outputDir, file));
\* readdir fixes no order, so the next file is any file not yet reached
CleanRemove ==
  /\ cpc = "loop" /\ pending # {}
  /\ \E f \in pending, throws \in BOOLEAN :
       IF throws
         THEN /\ cpc' = "done"
              /\ cleanResult' = CleanResult("error", FALSE, {}, 0)
              /\ UNCHANGED <<outDir, pending>>
         ELSE /\ outDir' = [outDir EXCEPT !.names = @ \ {f}]
              /\ pending' = pending \ {f}
              /\ UNCHANGED <<cpc, cleanResult>>
  /\ UNCHANGED tsFiles
  /\ cleanFrame

\* return { success: true, deletedCount: tsFiles.length, ... }
CleanReturn ==
  /\ cpc = "loop" /\ pending = {}
  /\ cpc' = "done"
  /\ cleanResult' = CleanResult("deleted", TRUE, {}, Cardinality(tsFiles))
  /\ UNCHANGED <<outDir, tsFiles, pending>>
  /\ cleanFrame

(***************************************************************************)
(* Initial states                                                          *)
(***************************************************************************)
FileArgs == [path : Paths, content : Contents]

WriterQuiet ==
  /\ dirExists = TRUE /\ dirWritable = TRUE
  /\ fs = [p \in Paths |-> [k \in Kinds |-> Absent]]
  /\ files = <<>> /\ shouldBackup = TRUE
  /\ idx = 0 /\ results = <<>> /\ wpc = "done"
  /\ backupPath = Null /\ error = "none" /\ result = NoResult
  /\ batch = NoBatch /\ before = Absent /\ entry = NoEntry

WatcherQuiet ==
  /\ watcher = "undefined" /\ isRegenerating = FALSE
  /\ timer = NoTimer /\ now = 0 /\ inFlight = 0
  /\ onRegenerateCb = "absent" /\ onErrorCb = "absent"
  /\ shutdown = "none" /\ hist = NoHist

ExtractQuiet ==
  /\ srcFiles = <<>> /\ xi = 0 /\ models = <<>> /\ warnings = <<>> /\ xpc = "done"

CallQuiet == call = NoCall /\ ret = NoRet

OverlapQuiet ==
  /\ ofs = [file |-> Absent, backup |-> Absent, tmp |-> Absent]
  /\ oshouldBackup = [c \in Callers |-> TRUE]
  /\ opc = [c \in Callers |-> "done"]
  /\ obackupPath = [c \in Callers |-> Null]
  /\ oresult = [c \in Callers |-> "none"]
  /\ oinstalled = [c \in Callers |-> FALSE]
  /\ obefore = Absent

CleanQuiet ==
  /\ outDir = [exists |-> FALSE, names |-> {}]
  /\ dryRun = FALSE /\ cpc = "done" /\ tsFiles = {} /\ pending = {}
  /\ cleanResult = NoCleanResult /\ outDirBefore = [exists |-> FALSE, names |-> {}]

\* Before writeMultipleFiles(files, options): the directory may be missing, each
\* destination is absent or holds some content, no sibling file is left over.
WriterInit ==
  /\ dirExists \in BOOLEAN
  /\ dirWritable \in BOOLEAN
  /\ fs \in [Paths -> [Kinds -> {Absent} \cup Contents]]
  /\ \A p \in Paths : fs[p]["backup"] = Absent /\ fs[p]["tmp"] = Absent
  /\ ~dirExists => \A p \in Paths : fs[p]["file"] = Absent
  /\ files \in SeqsUpTo(FileArgs, MaxFiles)
  /\ shouldBackup \in BOOLEAN
  /\ idx = 0 /\ results = <<>> /\ wpc = "loop"
  /\ backupPath = Null /\ error = "none" /\ result = NoResult
  /\ batch = NoBatch /\ before = Absent /\ entry = NoEntry

NextWriter ==
  \/ CallWriteFileSafe \/ EnsureDirectory \/ CheckWritePermission
  \/ CreateBackup \/ BackupCopyBegin \/ BackupCopyEnd
  \/ WriteTempBegin \/ WriteTempEnd \/ Rename \/ RemoveBackup
  \/ Catch \/ RestoreCopyBegin \/ RestoreCopyEnd \/ RestoreRemove
  \/ PushResult \/ ReturnBatch

\* watchFiles(config, options) has returned; start() was not called yet
WatcherInit ==
  /\ watcher = "undefined" /\ isRegenerating = FALSE
  /\ timer = NoTimer /\ now = 0 /\ inFlight = 0
  /\ onRegenerateCb \in Callbacks /\ onErrorCb \in Callbacks
  /\ shutdown = "none" /\ hist = NoHist

NextWatcher ==
  \/ Start \/ Stop \/ RestartStop \/ RestartStart
  \/ WatchEvent \/ WatcherError \/ Tick \/ TimerFire \/ RunComplete
  \/ Signal \/ Exit

InitWatcher ==
  WatcherInit /\ WriterQuiet /\ ExtractQuiet /\ CallQuiet /\ OverlapQuiet /\ CleanQuiet
SpecWatcher == InitWatcher /\ [][NextWatcher]_vars

\* parseMongooseModels has the file list of findMongooseModels
ExtractInit ==
  /\ srcFiles \in SeqsUpTo(LoadKinds, MaxSrcFiles)
  /\ xi = 0 /\ models = <<>> /\ warnings = <<>> /\ xpc = "loop"

NextExtract == ParseNextFile \/ ReturnModels

InitExtract ==
  ExtractInit /\ WriterQuiet /\ WatcherQuiet /\ CallQuiet /\ OverlapQuiet /\ CleanQuiet
SpecExtract == InitExtract /\ [][NextExtract]_vars

InitWriter ==
  WriterInit /\ WatcherQuiet /\ ExtractQuiet /\ CallQuiet /\ OverlapQuiet /\ CleanQuiet
SpecWriter == InitWriter /\ [][NextWriter]_vars

\* one call of one function, with its argument
CallInit ==
  /\ ret = NoRet
  /\ \/ \E arg \in SchemaObjs : call = [fn |-> "parseMongooseModel", arg |-> arg]
     \/ \E arg \in ExtractArgs : call = [fn |-> "extractFieldType", arg |-> arg]
     \/ \E arg \in RawModels : call = [fn |-> "normalizeModel", arg |-> arg]
     \/ \E arg \in RawFields : call = [fn |-> "normalizeField", arg |-> arg]
     \/ \E arg \in SchemaInputs : call = [fn |-> "validateSchema", arg |-> arg]
     \/ \E arg \in ErrorCodeArgs : call = [fn |-> "createError", arg |-> arg]
     \/ \E arg \in ConfigArgs : call = [fn |-> "mergeConfigs", arg |-> arg]
     \/ \E arg \in ConfigArgs : call = [fn |-> "loadConfig", arg |-> arg]

NextCalls ==
  \/ CallParseMongooseModel \/ CallExtractFieldType \/ CallNormalizeField
  \/ CallNormalizeModel \/ CallValidateSchema \/ CallCreateError
  \/ CallMergeConfigs \/ CallLoadConfig

InitCalls ==
  CallInit /\ WriterQuiet /\ WatcherQuiet /\ ExtractQuiet /\ OverlapQuiet /\ CleanQuiet
SpecCalls == InitCalls /\ [][NextCalls]_vars

\* both calls of writeFileSafe(path, ...) were made and neither has run a step
OverlapInit ==
  /\ ofs \in [file : {Absent, Original}, backup : {Absent}, tmp : {Absent}]
  /\ oshouldBackup \in [Callers -> BOOLEAN]
  /\ opc = [c \in Callers |-> "start"]
  /\ obackupPath = [c \in Callers |-> Null]
  /\ oresult = [c \in Callers |-> "none"]
  /\ oinstalled = [c \in Callers |-> FALSE]
  /\ obefore = ofs.file

NextOverlap ==
  \/ OverlapEnter \/ OverlapCreateBackup \/ OverlapBackupCopy
  \/ OverlapWriteTemp \/ OverlapRename
  \/ OverlapRemoveBackupCheck \/ OverlapRemoveBackup
  \/ OverlapCatch \/ OverlapRestoreCheck \/ OverlapRestoreCopy
  \/ OverlapRestoreRemove

InitOverlap ==
  OverlapInit /\ WriterQuiet /\ WatcherQuiet /\ ExtractQuiet /\ CallQuiet /\ CleanQuiet
SpecOverlap == InitOverlap /\ [][NextOverlap]_vars

\* cleanGeneratedFiles(outputDir, { dryRun }) was called; a missing directory
\* holds no file
CleanInit ==
  /\ outDir \in [exists : BOOLEAN, names : SUBSET DirNames]
  /\ ~outDir.exists => outDir.names = {}
  /\ dryRun \in BOOLEAN
  /\ cpc = "start" /\ tsFiles = {} /\ pending = {}
  /\ cleanResult = NoCleanResult
  /\ outDirBefore = outDir

NextClean == CleanPathExists \/ CleanReaddir \/ CleanRemove \/ CleanReturn

InitClean ==
  CleanInit /\ WriterQuiet /\ WatcherQuiet /\ ExtractQuiet /\ CallQuiet /\ OverlapQuiet
SpecClean == InitClean /\ [][NextClean]_vars

(***************************************************************************)
(* Claims about the file writer (specification SpecWriter)                 *)
(***************************************************************************)
\* the content of the destination of the call in progress
visible == fs[cur.path]["file"]

\* C1: when writeFileSafe finishes, the destination holds exactly the new
\* content and the result is success=true, or a step failed, the result is
\* success=false and the destination is exactly as it was before the call.
C1_NewOrUntouched ==
  wpc = "return" =>
    \/ result.success /\ visible = cur.content
    \/ ~result.success /\ visible = before

\* C2: at every step of a writeFileSafe call a reader of the destination sees
\* the complete old content or the complete new content (an absent file when
\* there was none before), never a partly written file.
C2_ReaderSeesOldOrNew ==
  wpc \notin {"loop", "done", "raised"} => visible \in {before, cur.content}

\* C8: writeFileSafe never raises past its caller. Whatever step throws, the
\* call returns a result with success=false and the message of the error; when
\* no step throws it returns success=true with backupCreated equal to 'a file
\* existed at the path before the call and backups are enabled'.
C8_NeverRaises ==
  /\ wpc # "raised"
  /\ wpc = "return" =>
       /\ result.filePath = cur.path
       /\ result.success <=> error = "none"
       /\ ~result.success => result.error = error
       /\ result.success => result.backupCreated = (shouldBackup /\ before # Absent)

\* a call returns its failure result although the restore of the backup threw
\* too and left the destination partly written
C8_Witness ==
  /\ wpc = "return" /\ ~result.success /\ result.error = "temp write failed"
  /\ backupPath # Null /\ visible = Partial

\* C9: writeMultipleFiles attempts every file in order whatever happened to the
\* earlier ones, and returns one result per file in input order, with
\* total = number of files, successful + failed = total, successful = number
\* of results with success=true, and success=true exactly when failed = 0.
C9_BatchAggregate ==
  wpc = "done" =>
    /\ Len(batch.results) = Len(files)
    /\ \A i \in 1..Len(files) : batch.results[i].filePath = files[i].path
    /\ batch.total = Len(files)
    /\ batch.successful + batch.failed = batch.total
    /\ batch.successful =
         Cardinality({i \in 1..Len(batch.results) : batch.results[i].success})
    /\ batch.success <=> batch.failed = 0

\* a batch in which the first file failed and the second was still written
C9_Witness ==
  /\ wpc = "done" /\ Len(files) = 2
  /\ ~batch.results[1].success /\ batch.results[2].success
  /\ fs[files[2].path]["file"] = files[2].content
  /\ batch.failed = 1 /\ batch.successful = 1 /\ ~batch.success

\* the call in progress ended at the permission check
PermissionDenied == wpc = "return" /\ ~dirWritable /\ error = "No write permission"

\* C20 as stated: when the write permission is missing, the call returns
\* success=false and no directory, backup file or temporary file has been
\* created, and path is unchanged.
C20_NothingCreatedWithoutPermission ==
  PermissionDenied =>
    /\ ~result.success
    /\ dirExists = entry.dir
    /\ fs[cur.path]["backup"] = entry.backup
    /\ fs[cur.path]["tmp"] = entry.tmp
    /\ visible = before

\* C20: when the write permission is missing, the call returns success=false,
\* no backup file or temporary file has been created and path is unchanged;
\* the parent directory exists, created by ensureDirectory if it was missing.
C20_NoFileTouchedWithoutPermission ==
  /\ PermissionDenied =>
       /\ ~result.success /\ ~result.backupCreated
       /\ dirExists
       /\ fs[cur.path]["backup"] = entry.backup
       /\ fs[cur.path]["tmp"] = entry.tmp
       /\ visible = before
  /\ wpc = "return" /\ ~dirWritable => ~result.success

\* the permission was refused for a destination that exists, backups enabled
C20_Witness ==
  /\ PermissionDenied
  /\ shouldBackup /\ before # Absent
  /\ ~result.success


\* C25: after writeFileSafe returns, with success or with failure at any step,
\* no sibling temporary file and no sibling backup file created by that call
\* remains on disk.
C25_NoSiblingLeftBehind ==
  wpc = "return" /\ entry.tmp = Absent /\ entry.backup = Absent =>
    fs[cur.path]["tmp"] = Absent /\ fs[cur.path]["backup"] = Absent

\* the statement of C25 for the calls that return success=true
C25_HoldsOnSuccess ==
  wpc = "return" /\ result.success => C25_NoSiblingLeftBehind

(***************************************************************************)
(* Claims about the watcher (specification SpecWatcher)                    *)
(***************************************************************************)
\* nothing is pending and nothing is running: no further run will start
\* unless a new event arrives
Quiescent == timer = NoTimer /\ inFlight = 0 /\ shutdown = "none"

\* C3: an event that arrives while a run is in progress is not dropped: a
\* follow-up run that covers it is started after the current run. Stated on
\* finite runs: the watcher never comes to rest (no timeout pending, no run
\* in flight) while such an event is still waiting for its run.
C3_MidRunEventCovered == ~(Quiescent /\ hist.pendingMidRun)

\* C4: at most one call of generateTypes is in flight at any time, and the
\* guard is set while it is.
C4_OneRunInFlight ==
  /\ inFlight <= 1
  /\ inFlight = 1 => isRegenerating

\* a timeout expired during a run and the guard kept a second run from starting
C4_Witness == inFlight = 1 /\ hist.dropped > 0 /\ hist.runsStarted >= 1

\* C5: a burst of events, each within the debounce delay of the previous one,
\* triggers exactly one run, and no run starts earlier than the delay after
\* the last event. Stated on finite runs: never more runs than bursts, and
\* once the timeout of the last burst has expired, as many runs as bursts.
C5_OneRunPerBurst ==
  /\ ~hist.earlyStart
  /\ hist.runsStarted <= hist.bursts
  /\ timer = NoTimer => hist.runsStarted = hist.bursts

\* the part of C5 that the debounce keeps: one call of the debounced function
\* per burst, never earlier than the delay after the last event
C5_OneExpiryPerBurst ==
  /\ ~hist.earlyStart
  /\ hist.runsStarted + hist.dropped <= hist.bursts
  /\ timer = NoTimer => hist.runsStarted + hist.dropped = hist.bursts
  /\ hist.dropped = 0 => C5_OneRunPerBurst

\* C6: when a signal arrives during a run, the process exits only after that
\* run has completed.
C6_DrainedBeforeExit == shutdown = "exited" => hist.aborted = 0

RECURSIVE SetToSortedSeq(_)
\* the elements of a set of numbers in increasing order
SetToSortedSeq(S) ==
  IF S = {} THEN <<>>
  ELSE LET m == CHOOSE x \in S : \A y \in S : x <= y
       IN <<m>> \o SetToSortedSeq(S \ {m})

\* C24: after stop() has completed, no regeneration run starts any more, even
\* when an event was received shortly before stop() and its debounce timer has
\* not yet expired.
C24_NoRunStartsAfterStop == ~hist.runAfterStop

\* both callbacks were given to watchFiles
BothCallbacks == onRegenerateCb # "absent" /\ onErrorCb # "absent"

\* C26: each run invokes exactly one callback exactly once: onRegenerate when
\* generateTypes returned success=true, onError otherwise; never both for the
\* same run, including when a callback itself throws.
C26_OneCallbackPerRun ==
  BothCallbacks /\ hist.lastRun.outcome # "none" =>
    IF hist.lastRun.outcome = "success"
    THEN hist.lastRun.regenerate = 1 /\ hist.lastRun.error = 0
    ELSE hist.lastRun.regenerate = 0 /\ hist.lastRun.error = 1

\* the statement of C26 for the runs in which no callback throws
C26_HoldsWhenCallbacksReturn ==
  onRegenerateCb = "ok" /\ onErrorCb = "ok" => C26_OneCallbackPerRun

\* C27: isWatching is false before start() is called, true after start(), and
\* false again after stop() has completed, for every sequence of start, stop
\* and restart calls.
C27_IsWatchingReflectsActivity ==
  /\ hist.starts = 0 => ~isWatching
  /\ watcher = "open" => isWatching
  /\ watcher = "closed" => ~isWatching

\* the statement of C27 without its last part
C27_HoldsUntilStop ==
  /\ hist.starts = 0 /\ watcher # "closed" => ~isWatching
  /\ watcher = "open" => isWatching

(***************************************************************************)
(* Claims about batch extraction (specification SpecExtract)               *)
(***************************************************************************)
\* the files whose require() threw
FailedFiles == {f \in 1..Len(srcFiles) : srcFiles[f] = "throws"}

\* the models of the files that loaded, file by file
ModelsReturnedInFileOrder ==
  /\ \A k \in 1..Len(models) : srcFiles[models[k].filePath] \in {"one", "two"}
  /\ \A k \in 1..(Len(models) - 1) :
       \/ models[k].filePath < models[k + 1].filePath
       \/ /\ models[k].filePath = models[k + 1].filePath
          /\ models[k].modelName[2] < models[k + 1].modelName[2]
  /\ \A f \in 1..Len(srcFiles) :
       Cardinality({k \in 1..Len(models) : models[k].filePath = f}) =
         (IF srcFiles[f] = "one" THEN 1 ELSE IF srcFiles[f] = "two" THEN 2 ELSE 0)

\* C10: when exactly one of the N source files fails to load, the models of
\* the other N-1 files are all returned, in file order, and the result of the
\* run reports exactly one failure: the returned value is then not the value
\* returned when the same file loads and merely exports no model (a run
\* without any failure).
C10_OneFailureReported ==
  xpc = "done" /\ Cardinality(FailedFiles) = 1 =>
    /\ ModelsReturnedInFileOrder
    /\ \A f \in FailedFiles :
         models # parseMongooseModels([srcFiles EXCEPT ![f] = "empty"], Len(srcFiles))

\* the part of C10 that the code keeps: the other files' models, in order
C10_OthersReturned ==
  xpc = "done" => ModelsReturnedInFileOrder /\ warnings = SetToSortedSeq(FailedFiles)

(***************************************************************************)
(* Claims about the parser and the normalizer (specification SpecCalls)    *)
(***************************************************************************)
\* the call of fn has returned
Done(fn) == call.fn = fn /\ ret.done

\* {name: {type: String, required: true}, age: Number}
NameAgeSchema ==
  Obj(<<<<"name", Typed(Fn("String"), <<<<"required", Bool(TRUE)>>>>)>>,
        <<"age", Fn("Number")>>>>)

\* C11: the model {name: {type: String, required: true}, age: Number}, taken
\* through parseSchemaFields and normalizeModel, yields the fields name (string,
\* required) and age (number, required) in that order: a field without a
\* required marker ends up required=true.
C11_OmittedMarkerIsRequired ==
  Done("parseMongooseModel") /\ call.arg = NameAgeSchema =>
    LET fields == ret.value.fields.v IN
    /\ Len(fields) = 2
    /\ fields[1].name = Str("name") /\ fields[1].type = Str("string")
    /\ fields[1].required = Bool(TRUE)
    /\ fields[2].name = Str("age") /\ fields[2].type = Str("number")
    /\ fields[2].required = Bool(TRUE)

\* C12: normalizeField returns required=false exactly when the raw field's
\* required attribute is the value false; with no required attribute, or any
\* other value, it returns required=true.
C12_RequiredUnlessExactlyFalse ==
  Done("normalizeField") =>
    LET explicitFalse == /\ "required" \in DOMAIN call.arg
                         /\ call.arg.required.k = "bool"
                         /\ call.arg.required.v = FALSE
    IN ret.value.required = Bool(~explicitFalse)

\* a raw field whose required attribute is 0 (falsy, not false) came out required
C12_Witness ==
  /\ Done("normalizeField")
  /\ "required" \in DOMAIN call.arg
  /\ call.arg.required = Num(0)
  /\ ret.value.required = Bool(TRUE)

\* C13: validateSchema never throws: for every model input (fields absent, an
\* object, a string, a number, or an array with a null or non-object element)
\* it returns a structured {valid, errors} result.
C13_ValidateNeverThrows ==
  Done("validateSchema") =>
    /\ ~ret.value.threw
    /\ ret.value.valid \in BOOLEAN
    /\ ret.value.valid = (ret.value.errors = <<>>)

\* an array of one element that is an enum-valued primitive
IsEnumElementArray(fieldDef) ==
  /\ fieldDef.k = "arr" /\ Len(fieldDef.v) = 1
  /\ fieldDef.v[1].k = "obj"
  /\ Has(fieldDef.v[1], "type") /\ Get(fieldDef.v[1], "type").k \in {"fn", "str"}
  /\ Has(fieldDef.v[1], "enum")

\* C14: a field defined as an array of an enum-valued primitive, such as
\* [{type: String, enum: ['a','b']}], is extracted with isArray=true and still
\* carries the enum flag and the element's enum values.
C14_ArrayKeepsElementEnum ==
  Done("extractFieldType") /\ IsEnumElementArray(call.arg) =>
    /\ ret.value.isArray = Bool(TRUE)
    /\ ret.value.isEnum = Bool(TRUE)
    /\ ret.value.enumValues = Get(call.arg.v[1], "enum")

\* an object definition with a primitive type marker and both enum and ref
HasEnumAndRef(fieldDef) ==
  /\ fieldDef.k = "obj"
  /\ Has(fieldDef, "type") /\ Get(fieldDef, "type").k \in {"fn", "str"}
  /\ Has(fieldDef, "enum") /\ Has(fieldDef, "ref")

\* an object definition with a primitive type marker and ref, without enum
HasRefOnly(fieldDef) ==
  /\ fieldDef.k = "obj"
  /\ Has(fieldDef, "type") /\ Get(fieldDef, "type").k \in {"fn", "str"}
  /\ ~Has(fieldDef, "enum") /\ Has(fieldDef, "ref")

\* C15 as stated: enum and ref are independent overlays, so a definition with
\* both is marked as enum with its values and also as reference with the
\* target name.
C15_EnumAndRefBothApplied ==
  Done("extractFieldType") /\ HasEnumAndRef(call.arg) =>
    /\ ret.value.isEnum = Bool(TRUE)
    /\ ret.value.enumValues = Get(call.arg, "enum")
    /\ ret.value.isReference = Bool(TRUE)
    /\ ret.value.referenceTo = Get(call.arg, "ref")

\* C15: for an object with a type key, enum takes precedence over ref: with
\* both, the result is marked as enum with its values and is not marked as
\* reference (isReference and referenceTo stay as resolved from type); with ref
\* and no enum, it is marked as reference with the target name. The enum overlay
\* changes nothing but isEnum and enumValues.
C15_EnumWinsOverRef ==
  Done("extractFieldType") =>
    LET resolved == Or(TypeMapLookup(Get(call.arg, "type").v), Str(STANDARD_TYPES.ANY)) IN
    /\ HasEnumAndRef(call.arg) =>
         /\ ret.value.isEnum = Bool(TRUE)
         /\ ret.value.enumValues = Get(call.arg, "enum")
         /\ ret.value.isReference = Bool(FALSE)
         /\ ret.value.referenceTo = Undef
         /\ ret.value.type = resolved
         /\ ret.value.isArray = Undef /\ ret.value.arrayOf = Undef
    /\ HasRefOnly(call.arg) =>
         /\ ret.value.isReference = Bool(TRUE)
         /\ ret.value.referenceTo = Get(call.arg, "ref")
         /\ ret.value.isEnum = Undef /\ ret.value.enumValues = Undef
         /\ ret.value.type = resolved

\* {type, enum, ref} came back marked as enum
C15_Witness ==
  /\ Done("extractFieldType")
  /\ HasEnumAndRef(call.arg)
  /\ ret.value.isEnum = Bool(TRUE)

\* every primitive marker of the definition is a key of the fixed type map
RECURSIVE UsesMapMarkersOnly(_)
UsesMapMarkersOnly(fieldDef) ==
  CASE fieldDef.k \in {"fn", "str"} -> fieldDef.v \in DOMAIN MONGOOSE_TYPE_MAP
    [] fieldDef.k = "arr" ->
         \A i \in 1..Len(fieldDef.v) : UsesMapMarkersOnly(fieldDef.v[i])
    [] fieldDef.k = "obj" ->
         IF Has(fieldDef, "type") THEN UsesMapMarkersOnly(Get(fieldDef, "type"))
         ELSE IF Has(fieldDef, "enum") THEN TRUE
         ELSE \A i \in 1..Len(fieldDef.v) : UsesMapMarkersOnly(fieldDef.v[i][2])
    [] OTHER -> FALSE

IsStandardType(t) == t.k = "str" /\ t.v \in StandardTypeNames

\* type, and arrayOf of arrays, are standard types in a field list and below it
RECURSIVE AllTypesStandard(_)
AllTypesStandard(fields) ==
  \A i \in 1..Len(fields) :
    /\ IsStandardType(fields[i].type)
    /\ fields[i].isArray = Bool(TRUE) => IsStandardType(fields[i].arrayOf)
    /\ fields[i].nested.k = "arr" => AllTypesStandard(fields[i].nested.v)

\* C16: every field of every model produced by the extractor and normalizer,
\* at every nesting depth, has a type (and, for arrays, an arrayOf) in the
\* closed set of standard types, for every primitive marker of the type map.
C16_TypesInStandardSet ==
  Done("parseMongooseModel") /\ UsesMapMarkersOnly(call.arg) =>
    AllTypesStandard(ret.value.fields.v)

\* the entry of a schema object is not an internal (underscore) field
NotInternal(pair) == FirstChar[pair[1]] # "_"

\* the definition is an embedded document: an object without type and enum
IsEmbedded(fieldDef) ==
  fieldDef.k = "obj" /\ ~Has(fieldDef, "type") /\ ~Has(fieldDef, "enum")

\* the field list is the list of the non-internal entries of the schema object,
\* in order, and so is every nested list
RECURSIVE MatchesSource(_, _)
MatchesSource(fields, schemaObj) ==
  LET kept == SelectSeq(schemaObj.v, NotInternal) IN
  /\ Len(fields) = Len(kept)
  /\ \A i \in 1..Len(kept) :
       /\ fields[i].name = Str(kept[i][1])
       /\ IsEmbedded(kept[i][2]) =>
            /\ fields[i].nested.k = "arr"
            /\ MatchesSource(fields[i].nested.v, kept[i][2])

\* C17: the fields of a normalized model are exactly the source schema's
\* fields whose names do not start with an underscore, in declaration order,
\* none dropped, duplicated or reordered; the same holds recursively for the
\* nested field list of an embedded object.
C17_FieldsAreSourceFieldsInOrder ==
  Done("parseMongooseModel") => MatchesSource(ret.value.fields.v, call.arg)

\* a schema with an internal field and an embedded document of three entries
C17_Witness ==
  /\ Done("parseMongooseModel")
  /\ \E i, j \in 1..Len(call.arg.v) :
       /\ call.arg.v[i][1] = "_id"
       /\ IsEmbedded(call.arg.v[j][2]) /\ Len(call.arg.v[j][2].v) = 3
       /\ NotInternal(call.arg.v[j])
  /\ Len(ret.value.fields.v) = 1

(***************************************************************************)
(* Claims about errors and configuration (specification SpecCalls)         *)
(***************************************************************************)
\* C18: every error created through TypeBridgeError/createError, for every
\* code passed in (known or unknown), carries an identifying code, a cause
\* message and a list of suggestions.
C18_ErrorCarriesCodeMessageSuggestions ==
  Done("createError") =>
    /\ ret.value.code.k = "str" /\ Truthy(ret.value.code)
    /\ Truthy(ret.value.message)
    /\ ret.value.suggestions.k = "arr" /\ Len(ret.value.suggestions.v) > 0

\* the value the merge order gives a key: the override's unless absent or
\* undefined, else the file's, else the default
MergedValue(key) ==
  IF key \in DOMAIN call.arg.overrides /\ call.arg.overrides[key].k # "undef"
  THEN call.arg.overrides[key]
  ELSE IF key \in DOMAIN call.arg.file THEN call.arg.file[key]
  ELSE DEFAULT_CONFIG[key]

\* C19: the configuration is merged in the order defaults < config file <
\* overrides: every key has the override's value if the override defines it
\* (not undefined), else the file's, else the default, so an undefined override
\* erases nothing. loadConfig hands on exactly these values, a relative path
\* among modelsPath, schemaPath and outputPath made absolute.
C19_MergeOrder ==
  /\ Done("mergeConfigs") =>
       /\ DOMAIN ret.value = DOMAIN DEFAULT_CONFIG
       /\ \A key \in DOMAIN DEFAULT_CONFIG : ret.value[key] = MergedValue(key)
  /\ Done("loadConfig") /\ ~ret.value.threw =>
       \A key \in DOMAIN DEFAULT_CONFIG :
         IF /\ key \in pathKeys
            /\ MergedValue(key).k = "str"
            /\ MergedValue(key).v \notin AbsolutePaths \cup {""}
         THEN ret.value.config[key] = ResolvedPath("/project", MergedValue(key))
         ELSE ret.value.config[key] = MergedValue(key)

\* an undefined override left the file's outputMode in place, and a defined
\* override replaced the file's watchDebounce
C19_Witness ==
  /\ Done("loadConfig") /\ ~ret.value.threw
  /\ {"outputMode", "watchDebounce"} \subseteq DOMAIN call.arg.overrides
  /\ {"outputMode", "watchDebounce"} \subseteq DOMAIN call.arg.file
  /\ call.arg.overrides["outputMode"] = Undef
  /\ call.arg.file["outputMode"] = Str("separate")
  /\ ret.value.config["outputMode"] = Str("separate")
  /\ call.arg.overrides["watchDebounce"] = Num(100)
  /\ call.arg.file["watchDebounce"] = Num(0)
  /\ ret.value.config["watchDebounce"] = Num(100)

(***************************************************************************)
(* Further claims about the normalizer and the parser (SpecCalls)          *)
(***************************************************************************)
\* x has a non-empty string under key
NonEmpty(x, key) ==
  /\ ~IsNullish(x)
  /\ Get(x, key).k = "str" /\ Get(x, key).v # ""

\* number of elements of the sequence that lack a non-empty string under key
RECURSIVE CountLacking(_, _, _)
CountLacking(elems, key, n) ==
  IF n = 0 THEN 0
  ELSE CountLacking(elems, key, n - 1) + (IF NonEmpty(elems[n], key) THEN 0 ELSE 1)

\* number of conditions of a valid model that the model violates
ViolatedConditions(schema) ==
  LET fields == Get(schema, "fields") IN
  (IF NonEmpty(schema, "modelName") THEN 0 ELSE 1)
  + (IF fields.k = "arr"
     THEN CountLacking(fields.v, "name", Len(fields.v))
          + CountLacking(fields.v, "type", Len(fields.v))
     ELSE 1)

\* C21: validateSchema returns valid=true exactly when the model has a
\* non-empty modelName, fields is a sequence and every field has a non-empty
\* name and type; valid is true exactly when errors is empty, and one error is
\* reported for each violated condition.
C21_ValidExactlyWhenWellFormed ==
  Done("validateSchema") =>
    /\ ~ret.value.threw
    /\ ret.value.valid = (ViolatedConditions(call.arg) = 0)
    /\ ret.value.valid = (ret.value.errors = <<>>)
    /\ Len(ret.value.errors) = ViolatedConditions(call.arg)

\* the statement of C21 for the calls that return
C21_HoldsWhenReturned ==
  Done("validateSchema") /\ ~ret.value.threw =>
    /\ ret.value.valid = (ViolatedConditions(call.arg) = 0)
    /\ ret.value.valid = (ret.value.errors = <<>>)
    /\ Len(ret.value.errors) = ViolatedConditions(call.arg)

\* C22: extractFieldType never raises; a bare marker (function or string name)
\* of the type map resolves to its mapped type, and every unknown marker and
\* every definition of no recognized shape (null, undefined, number, boolean)
\* resolves to any.
C22_UnknownResolvesToAny ==
  Done("extractFieldType") =>
    /\ call.arg.k \in {"fn", "str"} =>
         ret.value.type =
           IF call.arg.v \in DOMAIN MONGOOSE_TYPE_MAP
           THEN Str(MONGOOSE_TYPE_MAP[call.arg.v])
           ELSE Str(STANDARD_TYPES.ANY)
    /\ call.arg.k \in {"null", "undef", "num", "bool"} =>
         ret.value.type = Str(STANDARD_TYPES.ANY)

\* the statement of C22 for markers that are not properties of Object.prototype
C22_HoldsForOtherNames ==
  Done("extractFieldType")
  /\ ~(call.arg.k \in {"fn", "str"} /\ call.arg.v \in ObjectPrototypeKeys)
  => C22_UnknownResolvesToAny

OptionalAttributes ==
  {"type", "required", "isPrimary", "isArray", "arrayOf", "isEnum", "enumValues",
   "isReference", "referenceTo", "defaultValue", "description", "nested"}

BooleanAttributes == {"isPrimary", "isArray", "isEnum", "isReference"}

\* the raw field gives no value for the attribute
Unset(field, attr) == Get(field, attr) = Undef

\* C23 as stated: no optional attribute of the result of normalizeField is
\* undefined; an unset boolean becomes false, unset required true, and every
\* other unset attribute, type included, null; normalizeModel defaults
\* tableName to modelName and source to "unknown".
C23_UnsetBecomesFalseTrueOrNull ==
  /\ Done("normalizeField") =>
       \A attr \in OptionalAttributes :
         /\ ret.value[attr] # Undef
         /\ Unset(call.arg, attr) =>
              ret.value[attr] =
                IF attr \in BooleanAttributes THEN Bool(FALSE)
                ELSE IF attr = "required" THEN Bool(TRUE)
                ELSE JSNull
  /\ Done("normalizeModel") =>
       /\ Unset(call.arg, "tableName") => ret.value.tableName = call.arg.modelName
       /\ Unset(call.arg, "source") => ret.value.source = Str("unknown")

\* C23: no optional attribute of the result of normalizeField is undefined; an
\* unset boolean becomes false, unset required true, unset type any, and every
\* other unset attribute null; normalizeModel defaults tableName to modelName
\* and source to "unknown".
C23_EveryAttributeInitialized ==
  /\ Done("normalizeField") =>
       \A attr \in OptionalAttributes :
         /\ ret.value[attr] # Undef
         /\ Unset(call.arg, attr) =>
              ret.value[attr] =
                IF attr \in BooleanAttributes THEN Bool(FALSE)
                ELSE IF attr = "required" THEN Bool(TRUE)
                ELSE IF attr = "type" THEN Str(STANDARD_TYPES.ANY)
                ELSE JSNull
  /\ Done("normalizeModel") =>
       /\ Unset(call.arg, "tableName") => ret.value.tableName = call.arg.modelName
       /\ Unset(call.arg, "source") => ret.value.source = Str("unknown")
       /\ ret.value.description # Undef /\ ret.value.filePath # Undef

\* a raw field with nothing but a name came back with every default
C23_Witness ==
  /\ Done("normalizeField")
  /\ DOMAIN call.arg = {"name", "type"} /\ call.arg.type = Undef
  /\ ret.value.type = Str(STANDARD_TYPES.ANY)
  /\ ret.value.isPrimary = Bool(FALSE)
  /\ ret.value.nested = JSNull

\* the default the definition declares, null if it declares none
DeclaredDefault(fieldDef) ==
  IF fieldDef.k = "obj" /\ Has(fieldDef, "default")
  THEN Get(fieldDef, "default") ELSE JSNull

\* C28: a default declared on a source field is preserved through
\* parseSchemaFields and normalizeField, the falsy values false, 0 and ''
\* included; defaultValue is null only when no default was declared.
C28_DeclaredDefaultPreserved ==
  Done("parseMongooseModel") =>
    LET kept == SelectSeq(call.arg.v, NotInternal) IN
    \A i \in 1..Len(kept) :
      ret.value.fields.v[i].defaultValue = DeclaredDefault(kept[i][2])

\* the statement of C28 for declared defaults that are truthy, and for none
C28_HoldsForTruthyDefaults ==
  Done("parseMongooseModel") =>
    LET kept == SelectSeq(call.arg.v, NotInternal) IN
    \A i \in 1..Len(kept) :
      Truthy(DeclaredDefault(kept[i][2])) \/ ~Has(kept[i][2], "default") =>
        ret.value.fields.v[i].defaultValue = DeclaredDefault(kept[i][2])

(***************************************************************************)
(* Claims about overlapping writes (specification SpecOverlap)             *)
(***************************************************************************)
BothReturned == \A c \in Callers : oresult[c] # "none"

Succeeded == {c \in Callers : oresult[c] = "success"}

\* C29: when two writeFileSafe calls for one path overlap, every call that
\* returned success has had its content installed at the path in full, and
\* once both have returned the path holds the content of a call that returned
\* success, or the original content if both failed.
C29_OverlapKeepsWriteContract ==
  /\ \A c \in Succeeded : oinstalled[c]
  /\ BothReturned =>
       IF Succeeded = {}
         THEN ofs.file = obefore
         ELSE \E c \in Succeeded : ofs.file = ocontent[c]

(***************************************************************************)
(* Claims about cleanGeneratedFiles (specification SpecClean)              *)
(***************************************************************************)
\* the names of DirNames that end in .ts, written out
DotTsNames ==
  { <<"a", ".", "t", "s">>, <<"b", ".", "d", ".", "t", "s">>, <<".", "t", "s">> }

CleanReturned == cpc = "done"

\* C30: with dryRun the output directory is left unchanged and the files
\* reported are exactly the .ts files a real clean would delete; without dryRun
\* every file whose name ends in .ts is removed and no other, and deletedCount
\* is the number removed; when the directory does not exist the call succeeds
\* and changes nothing.  The removals and the report are those of a call that
\* returns success: true; the files that do not end in .ts, and the directory
\* of a dry run or of a missing directory, are untouched at every step.
C30_CleanRemovesExactlyTsFiles ==
  /\ outDir.exists = outDirBefore.exists
  /\ outDirBefore.names \ DotTsNames \subseteq outDir.names
  /\ outDir.names \subseteq outDirBefore.names
  /\ dryRun => outDir = outDirBefore
  /\ CleanReturned /\ ~outDirBefore.exists =>
       cleanResult.success /\ outDir = outDirBefore
  /\ CleanReturned /\ cleanResult.success /\ outDirBefore.exists /\ dryRun =>
       /\ cleanResult.kind = "dryRun"
       /\ cleanResult.files = outDirBefore.names \cap DotTsNames
  /\ CleanReturned /\ cleanResult.success /\ outDirBefore.exists /\ ~dryRun =>
       /\ cleanResult.kind = "deleted"
       /\ outDir.names = outDirBefore.names \ DotTsNames
       /\ cleanResult.deletedCount =
            Cardinality(outDirBefore.names \ outDir.names)

\* a real clean has removed two .ts files and kept two other files
C30_Witness ==
  /\ CleanReturned /\ cleanResult.kind = "deleted"
  /\ cleanResult.deletedCount = 2
  /\ Cardinality(outDir.names) = 2

\* a dry run and a real clean of the same directory agree on the files
C30_DryRunWitness ==
  /\ CleanReturned /\ cleanResult.kind = "dryRun"
  /\ Cardinality(cleanResult.files) = 2
  /\ outDir.names # cleanResult.files

\* C30, the failure path: a call that returns success: false has removed some
\* of the .ts files and none of the others
C30_FailureRemovesOnlyTsFiles ==
  CleanReturned /\ ~cleanResult.success =>
    outDirBefore.names \ outDir.names \subseteq DotTsNames

====
